---- MODULE Spec2Model ----
(***************************************************************************)
(* A model of the AIM_Next inference infrastructure:                       *)
(*   - the GPU memory partitioner (simulation and real-hardware variants)  *)
(*     and the model scheduler of aim-gpu-sharing/runtime,                 *)
(*   - the guardrail service of aim-guardrails/guardrails/core,            *)
(*   - the QoS request queue of aim-gpu-sharing/runtime/qos.               *)
(*                                                                         *)
(* All byte quantities are expressed in units of 2^30 bytes (1 GiB): every *)
(* size in the catalogue and every partition size used here is a whole     *)
(* number of GiB, so int(size_gb * 1024**3) is exact and the float         *)
(* comparisons of the scheduler (in GB) agree with the integer ones.       *)
(***************************************************************************)
EXTENDS Integers, Sequences, FiniteSets, TLC

(***************************************************************************)
(* Bounds of the model.                                                    *)
(***************************************************************************)
MaxOps == 3

(***************************************************************************)
(* Program constants.                                                      *)
(***************************************************************************)
DefaultModelSizeGB == 40
system_overhead_gb == 4
min_partition_gb == 8
MI300X_total_memory_gb == 192
NumXCD == 8

NoPartition == -1   \* Python None for an optional partition id
NoneMode == "None"  \* Python None for an optional mode string

(***************************************************************************)
(* model_sizing.py: the catalogue and the size estimate.                   *)
(***************************************************************************)
Llama8B == "meta-llama/Llama-3.1-8B-Instruct"
Llama1B == "meta-llama/Llama-3.2-1B-Instruct"
UnknownModel == "unknown/model"

ModelIds == {Llama8B, Llama1B, UnknownModel}
Precisions == {"fp16", "int8", "int4"}
GpuNames == {"MI300X", "UNKNOWN_GPU"}

PRECISION_DATA ==
    (Llama8B :> [fp16 |-> 20, int8 |-> 13, int4 |-> 9]) @@
    (Llama1B :> [fp16 |-> 5, int8 |-> 3, int4 |-> 2])

\* ModelSizingConfig.get_gpu_spec(gpu_name).total_memory_gb, 0 for "not found"
get_gpu_spec(gpu_name) ==
    IF gpu_name = "MI300X" THEN MI300X_total_memory_gb ELSE 0

\* ModelSizingConfig.estimate_model_size(model_id, precision=...)
estimate_model_size(model_id, precision) ==
    IF model_id \in DOMAIN PRECISION_DATA
    THEN IF precision \in DOMAIN PRECISION_DATA[model_id]
         THEN PRECISION_DATA[model_id][precision]
         ELSE PRECISION_DATA[model_id]["fp16"]
    ELSE DefaultModelSizeGB

(***************************************************************************)
(* Sequence helpers (Python list operations).                              *)
(***************************************************************************)
RECURSIVE SumSeq(_)
SumSeq(s) == IF s = << >> THEN 0 ELSE Head(s) + SumSeq(Tail(s))

InSeq(x, s) == \E i \in 1..Len(s) : s[i] = x

\* list.remove(x): removes the first occurrence
RECURSIVE RemoveFirst(_, _)
RemoveFirst(s, x) ==
    IF s = << >> THEN << >>
    ELSE IF Head(s) = x THEN Tail(s)
    ELSE <<Head(s)>> \o RemoveFirst(Tail(s), x)

Count(x, s) == Cardinality({i \in 1..Len(s) : s[i] = x})

RECURSIVE GCD(_, _)
GCD(a, b) == IF b = 0 THEN a ELSE GCD(b, a % b)

Abs(x) == IF x < 0 THEN -x ELSE x

(***************************************************************************)
(* State.                                                                  *)
(***************************************************************************)
VARIABLES
    kind,                   \* "sim": ROCmPartitioner, "real": ROCmPartitionerReal
    initialized,            \* partitioner._initialized
    partitions,             \* partitioner.partitions: id -> MemoryPartition
    compute_mode,           \* ROCmPartitionerReal.compute_mode
    memory_mode,            \* ROCmPartitionerReal.memory_mode
    amd_smi_available,      \* ROCmPartitionerReal.amd_smi_available
    devCompute,             \* the device's compute partition mode
    devMemory,              \* the device's memory partition mode
    setCommands,            \* number of amd-smi set commands issued
    models,                 \* ModelScheduler.models: model_id -> ModelInstance
    partition_assignments,  \* ModelScheduler.partition_assignments
    lastCall,               \* the last call made and what it returned
    beforeSchedule,         \* partitioner.partitions as they were before the last
                            \* call, when that call was a schedule_model (else << >>)
    nops,                   \* number of calls made so far
    lastInit,               \* the last initialize call: arguments, device answers, result
    policies,               \* GuardrailService.policies
    metrics_enabled,        \* GuardrailService.metrics is not None
    latency_budget_exceeded,\* the latency_budget_exceeded counter of the metrics
    lastCheck,              \* the last check_request / check_response and its result
    unavailable_models,     \* the guardrail types whose checker has model = None
    queues,                 \* RequestQueue._queues: QoSLevel -> deque of Request
    resource_limits,        \* QoSManager.resource_limits (the model ids in it)
    clock,                  \* time.time()
    submitted,              \* number of submit_request calls so far
    lastQos,                \* the last QoSManager call and what it returned
    request_counts,         \* RateLimiter.request_counts: identifier -> window -> list
    blocked_users,          \* RateLimiter.blocked_users
    rateClock,              \* time.time() as the rate limiter reads it
    allowedLog,             \* per identifier, the timestamps of the calls allowed so far
    rateCalls,              \* number of rate limiter calls made so far
    lastRate,               \* the last check_rate_limit call and what it returned
    allowed_geos,           \* RateLimitConfig.allowed_geos ({} is None)
    minuteDenial,           \* per identifier: "denied" since a per-minute denial,
                            \* "recovered" once the next check was allowed
    slos,                   \* QoSManager.slos: model id -> SLO
    request_stats,          \* QoSManager.request_stats: model id -> tallies
    lastSlo,                \* the last check_slo_compliance and what it returned
    sloOps,                 \* number of SLO operations made
    proxy,                  \* InferenceProxy.forward_request: where the call is
                            \* and its locals
    proxyCalls,             \* number of forward_request calls started
    lastReset,              \* what the device answered during the last
                            \* reset_partitions
    allocThreads,           \* the threads inside allocate_model: where each is
                            \* and its locals
    allocCalls,             \* number of concurrent allocate_model calls started
    rateThreads,            \* the threads inside check_rate_limit: where each
                            \* is and its locals
    qosThreads,             \* the threads inside submit_request or
                            \* get_next_request: where each is and its locals
    acceptedLog,            \* the ids of the requests submit_request has enqueued
    returnedLog,            \* how often get_next_request has returned each
                            \* request id, with whether the request's timeout
                            \* had elapsed when the call started
    expiredLog,             \* how often clear_expired has removed each request id
    compute_limits,         \* ResourceIsolator.compute_limits
    total_compute_units,    \* ResourceIsolator.total_compute_units
    isolatorInitialized,    \* ResourceIsolator._initialized
    lastIsolatorCall,       \* the isolator's last call and what it returned
    isolatorCalls,          \* number of calls made to the isolator
    resources,              \* the InferenceServices in the cluster: name -> gpuSharing
    stream,                 \* the watch events the controller has not processed yet
    svcStatus,              \* the status written to each InferenceService
    lastEvent,              \* the event the controller processed last, and how
    nevents                 \* number of watch events produced so far

partVars == <<kind, initialized, partitions, compute_mode, memory_mode,
              amd_smi_available, devCompute, devMemory, setCommands>>
schedVars == <<models, partition_assignments>>
histVars == <<lastCall, beforeSchedule, nops, lastInit>>
guardVars == <<policies, metrics_enabled, latency_budget_exceeded, lastCheck,
              unavailable_models>>
qosVars == <<queues, resource_limits, clock, submitted, lastQos>>
rateVars == <<request_counts, blocked_users, rateClock, allowedLog, rateCalls, lastRate,
             allowed_geos, minuteDenial>>

ctlVars == <<resources, stream, svcStatus, lastEvent, nevents>>
sloVars == <<slos, request_stats, lastSlo, sloOps>>
proxyVars == <<proxy, proxyCalls>>
resetVars == <<lastReset>>
allocConcVars == <<allocThreads, allocCalls>>
rateConcVars == <<rateThreads>>
qosConcVars == <<qosThreads, acceptedLog, returnedLog, expiredLog>>
isoVars == <<compute_limits, total_compute_units, isolatorInitialized, lastIsolatorCall,
             isolatorCalls>>
moreVars == <<resetVars, allocConcVars, rateConcVars, qosConcVars, isoVars>>
restVars == <<sloVars, proxyVars, moreVars>>

vars == <<partVars, schedVars, histVars, guardVars, qosVars, rateVars, ctlVars, restVars>>

EmptyMap == [x \in {} |-> 0]

NoCall == [op |-> "none", model_id |-> "", precision |-> "", preferred |-> NoPartition,
           ok |-> FALSE, ret_partition |-> NoPartition, was_present |-> FALSE]

\* The record of one call: its arguments, what it returned, and whether
\* its model id was in the scheduler's instance map when it started.
Call(op, m, prec, pref, ok, ret) ==
    [op |-> op, model_id |-> m, precision |-> prec, preferred |-> pref,
     ok |-> ok, ret_partition |-> ret, was_present |-> m \in DOMAIN models]

(***************************************************************************)
(* rocm_partitioner.py / rocm_partitioner_real.py: MemoryPartition.        *)
(***************************************************************************)
MemoryPartition(size) ==
    [size_bytes |-> size, allocated_bytes |-> 0, models |-> << >>, is_active |-> TRUE]

\* ROCmPartitioner.initialize: the partitions created from partition_sizes_gb
SimPartitions(partition_sizes_gb) ==
    [i \in 0..(Len(partition_sizes_gb) - 1) |-> MemoryPartition(partition_sizes_gb[i + 1])]

\* ROCmPartitioner.initialize
SimInitializeResult(init, parts, gpu_name, partition_sizes_gb) ==
    IF init THEN [ok |-> FALSE, initialized |-> init, partitions |-> parts]
    ELSE IF get_gpu_spec(gpu_name) = 0
    THEN [ok |-> FALSE, initialized |-> init, partitions |-> parts]
    ELSE IF SumSeq(partition_sizes_gb) > get_gpu_spec(gpu_name) - system_overhead_gb
    THEN [ok |-> FALSE, initialized |-> init, partitions |-> parts]
    ELSE [ok |-> TRUE, initialized |-> TRUE, partitions |-> SimPartitions(partition_sizes_gb)]

(***************************************************************************)
(* rocm_partitioner_real.py: partition modes and the device.               *)
(***************************************************************************)
ComputePartitionMode == {"SPX", "CPX", "TPX"}
MemoryPartitionMode == {"NPS1", "NPS4"}
SetOutcomes == {"ok", "fail", "raise"}

\* ROCmPartitionerReal.set_compute_partition_mode(mode), after the amd-smi
\* check.  current is what get_current_partition_mode() returned for the
\* compute mode (NoneMode when the query failed), outcome what the set
\* command did.
SetComputeModeResult(cm, dev, mode, current, outcome) ==
    IF current = mode
    THEN [ok |-> TRUE, compute_mode |-> mode, dev |-> dev, issued |-> 0]
    ELSE IF outcome = "raise"
    THEN [ok |-> FALSE, compute_mode |-> cm, dev |-> dev, issued |-> 1]
    ELSE IF outcome = "ok"
    THEN [ok |-> TRUE, compute_mode |-> mode, dev |-> mode, issued |-> 1]
    ELSE IF current # NoneMode /\ current \in ComputePartitionMode
    THEN [ok |-> TRUE, compute_mode |-> current, dev |-> dev, issued |-> 1]
    ELSE [ok |-> FALSE, compute_mode |-> cm, dev |-> dev, issued |-> 1]

\* ROCmPartitionerReal.set_memory_partition_mode(mode), after the amd-smi check
SetMemoryModeResult(cm, mm, dev, mode, current, outcome) ==
    IF mode = "NPS4" /\ cm # "CPX"
    THEN [ok |-> FALSE, memory_mode |-> mm, dev |-> dev, issued |-> 0]
    ELSE IF current = mode
    THEN [ok |-> TRUE, memory_mode |-> mode, dev |-> dev, issued |-> 0]
    ELSE IF outcome = "raise"
    THEN [ok |-> FALSE, memory_mode |-> mm, dev |-> dev, issued |-> 1]
    ELSE IF outcome = "ok"
    THEN [ok |-> TRUE, memory_mode |-> mode, dev |-> mode, issued |-> 1]
    ELSE IF current # NoneMode /\ current \in MemoryPartitionMode
    THEN [ok |-> TRUE, memory_mode |-> current, dev |-> dev, issued |-> 1]
    ELSE [ok |-> FALSE, memory_mode |-> mm, dev |-> dev, issued |-> 1]

\* ROCmPartitionerReal.initialize: the number of logical devices (0: unsupported)
NumPartitions(mode) ==
    IF mode = "CPX" THEN NumXCD ELSE IF mode = "SPX" THEN 1 ELSE 0

\* ROCmPartitionerReal.initialize: memory per partition in GB
MemoryPerPartition(total_memory_gb, cmode, mmode) ==
    IF mmode = "NPS4" THEN total_memory_gb \div NumPartitions(cmode)
    ELSE IF cmode = "CPX" THEN total_memory_gb \div NumPartitions(cmode)
    ELSE total_memory_gb

\* ROCmPartitionerReal.initialize: the partition objects created
RealPartitions(total_memory_gb, cmode, mmode) ==
    [i \in 0..(NumPartitions(cmode) - 1) |->
        MemoryPartition(MemoryPerPartition(total_memory_gb, cmode, mmode))]

\* ROCmPartitionerReal.initialize(gpu_name, compute_mode, memory_mode).
\* st is the partitioner's state, q* the answers of the two mode queries and
\* o* the outcomes of the two set commands.
RealInitializeResult(st, gpu_name, cmode, mmode, qc, oc, qm, om) ==
    LET fail(s) == [s EXCEPT !.ok = FALSE]
        base == [ok |-> TRUE, initialized |-> st.initialized, partitions |-> st.partitions,
                 compute_mode |-> st.compute_mode, memory_mode |-> st.memory_mode,
                 devCompute |-> st.devCompute, devMemory |-> st.devMemory,
                 setCommands |-> st.setCommands]
    IN  IF st.initialized THEN fail(base)
        ELSE IF ~st.amd_smi_available THEN fail(base)
        ELSE
          LET c == SetComputeModeResult(st.compute_mode, st.devCompute, cmode, qc, oc)
              s1 == [base EXCEPT !.compute_mode = c.compute_mode, !.devCompute = c.dev,
                                 !.setCommands = @ + c.issued]
          IN  IF ~c.ok THEN fail(s1)
              ELSE
                LET m == SetMemoryModeResult(s1.compute_mode, s1.memory_mode,
                                             s1.devMemory, mmode, qm, om)
                    s2 == [s1 EXCEPT !.memory_mode = m.memory_mode, !.devMemory = m.dev,
                                     !.setCommands = @ + m.issued]
                IN  IF ~m.ok THEN fail(s2)
                    ELSE IF get_gpu_spec(gpu_name) = 0 THEN fail(s2)
                    ELSE IF NumPartitions(cmode) = 0 THEN fail(s2)
                    ELSE [s2 EXCEPT !.initialized = TRUE,
                                    !.partitions = RealPartitions(get_gpu_spec(gpu_name),
                                                                  cmode, mmode)]

(***************************************************************************)
(* allocate_model / deallocate_model of both partitioners.                 *)
(***************************************************************************)
\* The precision allocate_model sizes the model with: the real partitioner
\* takes the caller's, the simulation partitioner has no such parameter and
\* uses estimate_model_size's default.
AllocatePrecision(k, precision) == IF k = "real" THEN precision ELSE "fp16"

\* The precision deallocate_model sizes the model with (both partitioners
\* call estimate_model_size(model_id) with the default precision).
DeallocatePrecision(k, precision) == "fp16"

\* allocate_model without the comparison of the model's size with the free
\* bytes of the partition
allocate_model_overcommits(k, init, parts, model_id, partition_id, precision) ==
    IF ~init THEN [ok |-> FALSE, partitions |-> parts]
    ELSE IF partition_id \notin DOMAIN parts THEN [ok |-> FALSE, partitions |-> parts]
    ELSE [ok |-> TRUE,
          partitions |-> [parts EXCEPT ![partition_id] =
              [@ EXCEPT !.models = Append(@, model_id),
                        !.allocated_bytes =
                            @ + estimate_model_size(model_id, AllocatePrecision(k, precision))]]]

\* ROCmPartitioner.allocate_model / ROCmPartitionerReal.allocate_model
allocate_model(k, init, parts, model_id, partition_id, precision) ==
    IF ~init THEN [ok |-> FALSE, partitions |-> parts]
    ELSE IF partition_id \notin DOMAIN parts THEN [ok |-> FALSE, partitions |-> parts]
    ELSE
      LET partition == parts[partition_id]
          model_size_bytes == estimate_model_size(model_id, AllocatePrecision(k, precision))
          available == partition.size_bytes - partition.allocated_bytes
      IN  IF model_size_bytes > available THEN [ok |-> FALSE, partitions |-> parts]
          ELSE [ok |-> TRUE,
                partitions |-> [parts EXCEPT ![partition_id] =
                    [partition EXCEPT !.models = Append(@, model_id),
                                      !.allocated_bytes = @ + model_size_bytes]]]

\* ROCmPartitioner.deallocate_model / ROCmPartitionerReal.deallocate_model
deallocate_model(k, parts, model_id, partition_id) ==
    IF partition_id \notin DOMAIN parts THEN [ok |-> FALSE, partitions |-> parts]
    ELSE
      LET partition == parts[partition_id]
          model_size_bytes == estimate_model_size(model_id, DeallocatePrecision(k, "fp16"))
      IN  IF ~InSeq(model_id, partition.models) THEN [ok |-> FALSE, partitions |-> parts]
          ELSE [ok |-> TRUE,
                partitions |-> [parts EXCEPT ![partition_id] =
                    [partition EXCEPT !.models = RemoveFirst(@, model_id),
                                      !.allocated_bytes = @ - model_size_bytes]]]

\* get_partition_info(partition_id) is not None
HasPartition(parts, partition_id) == partition_id \in DOMAIN parts

FreeBytes(parts, p) == parts[p].size_bytes - parts[p].allocated_bytes

\* get_available_partitions(): ids of active partitions with at least
\* min_partition_gb free
get_available_partitions(parts) ==
    {p \in DOMAIN parts : parts[p].is_active /\ FreeBytes(parts, p) >= min_partition_gb}

\* get_partition_utilization(): allocated / size * 100 as an exact fraction
\* <<numerator, denominator>> in lowest terms (<<0, 1>> for an empty partition)
Utilization(partition) ==
    IF partition.size_bytes > 0
    THEN LET n == partition.allocated_bytes * 100
             d == partition.size_bytes
             g == GCD(Abs(n), d)
         IN  <<n \div g, d \div g>>
    ELSE <<0, 1>>

get_partition_utilization(parts) == [p \in DOMAIN parts |-> Utilization(parts[p])]

\* Sum of size_bytes over the partitions
RECURSIVE TotalSize(_, _)
TotalSize(parts, S) ==
    IF S = {} THEN 0
    ELSE LET p == CHOOSE q \in S : TRUE
         IN  parts[p].size_bytes + TotalSize(parts, S \ {p})

\* validate_partitioning(): the set of errors.  Only the simulation
\* partitioner compares the total partition size with the GPU's memory.
validate_partitioning(k, init, parts) ==
    IF ~init THEN {<<"Partitioner not initialized", NoPartition>>}
    ELSE (IF k = "sim" /\ TotalSize(parts, DOMAIN parts) > get_gpu_spec("MI300X")
          THEN {<<"exceeds GPU memory", NoPartition>>} ELSE {})
         \cup {<<"overflow", p>> : p \in {q \in DOMAIN parts :
                                     parts[q].allocated_bytes > parts[q].size_bytes}}

(***************************************************************************)
(* model_scheduler.py: ModelScheduler.                                     *)
(***************************************************************************)
ModelStatus == {"pending", "scheduled", "running", "stopped", "failed"}
Priorities == {0}
PreferredChoices == {NoPartition, 0, 1}

ModelInstance(model_id, partition_id, status, memory_allocated_gb, priority) ==
    [model_id |-> model_id, partition_id |-> partition_id, status |-> status,
     memory_allocated_gb |-> memory_allocated_gb, priority |-> priority]

\* dict[key] = value
Put(d, k, v) == [x \in (DOMAIN d) \cup {k} |-> IF x = k THEN v ELSE d[x]]

\* del dict[key]
Del(d, k) == [x \in (DOMAIN d) \ {k} |-> d[x]]

\* The head of partition_sizes after the stable sort by available space,
\* largest first: among the ids in S the one with the most free bytes, the
\* smallest id first among equals (the ids are listed in ascending order).
LargestFirst(parts, S) ==
    CHOOSE p \in S : \A q \in S :
        \/ FreeBytes(parts, p) > FreeBytes(parts, q)
        \/ FreeBytes(parts, p) = FreeBytes(parts, q) /\ p <= q

\* ModelScheduler._find_suitable_partition; NoPartition for None
find_suitable_partition(parts, model_id, preferred_partition, precision) ==
    LET model_size == estimate_model_size(model_id, precision)
        fitting == {p \in get_available_partitions(parts) :
                        model_size <= FreeBytes(parts, p)}
    IN  IF /\ preferred_partition # NoPartition
           /\ HasPartition(parts, preferred_partition)
           /\ model_size <= FreeBytes(parts, preferred_partition)
        THEN preferred_partition
        ELSE IF fitting = {} THEN NoPartition
        ELSE LargestFirst(parts, fitting)

\* The statuses for which schedule_model returns the existing placement
AlreadyScheduledStatuses == {"running", "scheduled"}

\* ModelScheduler.schedule_model
schedule_model(k, init, parts, mods, assign, model_id, priority, preferred_partition, precision) ==
    LET unchanged(ok, ret) == [ok |-> ok, ret_partition |-> ret, partitions |-> parts,
                               models |-> mods, partition_assignments |-> assign]
    IN  IF model_id \in DOMAIN mods /\ mods[model_id].status \in AlreadyScheduledStatuses
        THEN unchanged(TRUE, mods[model_id].partition_id)
        ELSE
          LET partition_id == find_suitable_partition(parts, model_id,
                                                      preferred_partition, precision)
          IN  IF partition_id = NoPartition THEN unchanged(FALSE, NoPartition)
              ELSE
                LET a == allocate_model(k, init, parts, model_id, partition_id, precision)
                    instance == ModelInstance(model_id, partition_id, "scheduled",
                                    estimate_model_size(model_id, precision), priority)
                IN  IF ~a.ok THEN unchanged(FALSE, NoPartition)
                    ELSE [ok |-> TRUE, ret_partition |-> partition_id,
                          partitions |-> a.partitions,
                          models |-> Put(mods, model_id, instance),
                          partition_assignments |->
                              Put(assign, partition_id,
                                  Append(IF partition_id \in DOMAIN assign
                                         THEN assign[partition_id] ELSE << >>, model_id))]

\* unschedule_model without its "del self.models[model_id]"
unschedule_model_keeps_instance(k, parts, mods, assign, model_id) ==
    IF model_id \notin DOMAIN mods
    THEN [ok |-> FALSE, partitions |-> parts, models |-> mods,
          partition_assignments |-> assign]
    ELSE [ok |-> TRUE,
          partitions |-> deallocate_model(k, parts, model_id,
                                          mods[model_id].partition_id).partitions,
          models |-> mods, partition_assignments |-> assign]

\* ModelScheduler.unschedule_model
unschedule_model(k, parts, mods, assign, model_id) ==
    LET unchanged == [ok |-> FALSE, partitions |-> parts, models |-> mods,
                      partition_assignments |-> assign]
    IN  IF model_id \notin DOMAIN mods THEN unchanged
        ELSE
          LET partition_id == mods[model_id].partition_id
              d == deallocate_model(k, parts, model_id, partition_id)
          IN  IF ~d.ok THEN unchanged
              ELSE [ok |-> TRUE, partitions |-> d.partitions,
                    models |-> Del(mods, model_id),
                    partition_assignments |->
                        IF partition_id \in DOMAIN assign
                        THEN [assign EXCEPT ![partition_id] = RemoveFirst(@, model_id)]
                        ELSE assign]

\* ModelScheduler.update_model_status
update_model_status(mods, model_id, status) ==
    IF model_id \notin DOMAIN mods THEN [ok |-> FALSE, models |-> mods]
    ELSE [ok |-> TRUE, models |-> [mods EXCEPT ![model_id].status = status]]

\* ModelScheduler.validate_schedule(): the set of errors
validate_schedule(k, init, parts, mods) ==
    validate_partitioning(k, init, parts)
    \cup {<<"non-existent partition", m>> : m \in {x \in DOMAIN mods :
              ~HasPartition(parts, mods[x].partition_id)}}
    \cup {<<"not found in partition", m>> : m \in {x \in DOMAIN mods :
              /\ HasPartition(parts, mods[x].partition_id)
              /\ ~InSeq(x, parts[mods[x].partition_id].models)}}

(***************************************************************************)
(* guardrails/core: GuardrailService, GuardrailConfig, LatencyBudgetManager *)
(* and guardrails/types/pii_checker.py: PIIChecker.                        *)
(* Thresholds and confidences are in hundredths, durations in ms.  A       *)
(* content is the set of its tokens: the PII entities in it and the        *)
(* placeholders that redaction has put in their place.                     *)
(***************************************************************************)
GuardrailPolicy(t, enabled, action, threshold) ==
    [guardrail_type |-> t, enabled |-> enabled, action |-> action, threshold |-> threshold]

\* GuardrailService._default_policies
default_policies ==
    << GuardrailPolicy("toxicity", TRUE, "block", 70),
       GuardrailPolicy("pii", TRUE, "redact", 80),
       GuardrailPolicy("prompt_injection", TRUE, "block", 75) >>

\* GuardrailConfig._default_config: the types with pre_filter / post_filter
\* set.  The judge's key is "all_in_one_judge", which is no GuardrailType
\* value, and a type without a key gets the default False.
PreFilterTypes == {"toxicity", "pii", "prompt_injection", "secrets", "all_in_one_judge"}
PostFilterTypes == {"toxicity", "pii", "policy_compliance", "secrets", "all_in_one_judge"}

should_pre_filter(guardrail_type) == guardrail_type \in PreFilterTypes
should_post_filter(guardrail_type) == guardrail_type \in PostFilterTypes

\* The keys of self.guardrails after _initialize_guardrails: the secret
\* scanner is stored under CUSTOM, the policy checker and the all-in-one
\* judge are never stored.
HasGuardrail(guardrail_type) ==
    guardrail_type \in {"toxicity", "pii", "prompt_injection", "custom"}

UseCase == {"chat", "rag", "code_gen", "batch"}

\* LatencyBudgetManager.BUDGETS[...].guardrail_budget_ms
get_guardrail_budget_ms(use_case) ==
    CASE use_case = "chat" -> 100
      [] use_case = "rag" -> 150
      [] use_case = "code_gen" -> 200
      [] OTHER -> 500

\* LatencyBudgetManager.get_optimized_models: the keys with a model
get_optimized_models(use_case) ==
    {"toxicity", "pii", "prompt_injection", "secrets"}
    \cup (IF use_case \in {"rag", "code_gen", "batch"} THEN {"all_in_one_judge"} ELSE {})
    \cup (IF use_case \in {"code_gen", "batch"} THEN {"policy_compliance"} ELSE {})

\* No model for a guardrail type (None)
NoModel == ""

\* LatencyBudgetManager.get_optimized_models: the dict it returns, guardrail
\* type -> model name
get_optimized_model_names(use_case) ==
    [toxicity |-> "roberta_toxicity",
     pii |-> IF use_case = "chat" THEN "presidio" ELSE "piiranha",
     prompt_injection |-> "protectai_deberta",
     all_in_one_judge |-> IF use_case = "chat" THEN NoModel ELSE "llama_guard",
     policy_compliance |-> IF use_case \in {"chat", "rag"} THEN NoModel ELSE "policy_llm",
     secrets |-> "secret_scanner"]

\* estimate_total_latency: the model latency estimates in ms
latency_map ==
    [roberta_toxicity |-> 20, detoxify |-> 100, xlm_toxicity |-> 150, presidio |-> 50,
     piiranha |-> 100, ab_ai_pii |-> 80, phi3_pii |-> 200, protectai_deberta |-> 30,
     enhanced_pattern |-> 10, llama_guard |-> 300, policy_llm |-> 500,
     secret_scanner |-> 5]

\* latency_map.get(model_name, 100)
DefaultLatencyMs == 100

\* The loop of estimate_total_latency over the guardrail types in S
RECURSIVE SumLatency(_, _)
SumLatency(selected, S) ==
    IF S = {} THEN 0
    ELSE LET t == CHOOSE x \in S : TRUE
         IN  (IF selected[t] # NoModel
              THEN IF selected[t] \in DOMAIN latency_map
                   THEN latency_map[selected[t]] ELSE DefaultLatencyMs
              ELSE 0)
               + SumLatency(selected, S \ {t})

\* LatencyBudgetManager.estimate_total_latency(use_case, models)
estimate_total_latency(use_case, selected) == SumLatency(selected, DOMAIN selected)

\* filter(seq, keep): the list comprehension
RECURSIVE Filter(_, _)
Filter(seq, keep) ==
    IF seq = << >> THEN << >>
    ELSE IF keep[Head(seq).guardrail_type] /\ Head(seq).enabled
         THEN <<Head(seq)>> \o Filter(Tail(seq), keep)
         ELSE Filter(Tail(seq), keep)

\* check_request's active_policies; use_case "" is None
active_policies(pols, use_case) ==
    IF use_case # "" /\ use_case \in UseCase
    THEN Filter(pols, [t \in {q.guardrail_type : q \in {pols[i] : i \in DOMAIN pols}}
                           |-> t \in get_optimized_models(use_case)])
    ELSE Filter(pols, [t \in {q.guardrail_type : q \in {pols[i] : i \in DOMAIN pols}}
                           |-> TRUE])

PIITypes == {"email", "ssn"}
Placeholder == [email |-> "[EMAIL_REDACTED]", ssn |-> "[SSN_REDACTED]"]

Min(a, b) == IF a < b THEN a ELSE b

\* PIIChecker.check: every pattern that matches is detected and its
\* matches are replaced; redacted_content is set whenever one matched.
PIIChecker_check(content, threshold) ==
    LET detected_pii == content \cap PIITypes
        confidence == IF detected_pii # {}
                      THEN Min(Cardinality(detected_pii) * 40, 100) ELSE 0
    IN  [raises |-> FALSE,
         unavailable |-> FALSE,
         confidence |-> confidence,
         passed |-> confidence < threshold,
         detected |-> detected_pii,
         has_redacted |-> detected_pii # {},
         redacted_content |-> (content \ detected_pii)
                                  \cup {Placeholder[t] : t \in detected_pii}]

\* guardrail.check(content, threshold=...): the PII checker computes its
\* result from the content; the learned classifiers answer as the oracle
\* says and redact nothing.  A classifier whose model did not load returns
\* passed=True with confidence 0.0 ("unavailable"); one that scored the
\* content passes iff the score is below the threshold; "raise" is an
\* exception escaping check().
Classify(guardrail_type, content, threshold, oracle) ==
    IF guardrail_type = "pii" THEN PIIChecker_check(content, threshold)
    ELSE [raises |-> oracle.outcome[guardrail_type] = "raise",
          unavailable |-> oracle.outcome[guardrail_type] = "unavailable",
          confidence |-> CASE oracle.outcome[guardrail_type] = "pass" -> threshold - 1
                           [] oracle.outcome[guardrail_type] = "fail" -> threshold
                           [] OTHER -> 0,
          passed |-> oracle.outcome[guardrail_type] \in {"pass", "unavailable"},
          detected |-> {},
          has_redacted |-> FALSE,
          redacted_content |-> {}]

\* GuardrailResult as the service returns it
GuardrailResult(policy, c) ==
    [guardrail_type |-> policy.guardrail_type, action |-> policy.action,
     passed |-> c.passed, confidence |-> c.confidence, has_redacted |-> c.has_redacted,
     redacted_content |-> c.redacted_content]

\* An except branch that reports the policy as failed
ErrorResultFailed(policy) ==
    [guardrail_type |-> policy.guardrail_type, action |-> policy.action,
     passed |-> FALSE, confidence |-> 0, has_redacted |-> FALSE, redacted_content |-> {}]

\* The result appended when guardrail.check raised
ErrorResult(policy) ==
    [guardrail_type |-> policy.guardrail_type, action |-> policy.action,
     passed |-> TRUE, confidence |-> 0, has_redacted |-> FALSE, redacted_content |-> {}]

\* What one invocation of a classifier received and took
Invocation(policy, seen, c, duration) ==
    [guardrail_type |-> policy.guardrail_type, seen |-> seen, duration |-> duration,
     raises |-> c.raises, unavailable |-> ~c.raises /\ c.unavailable,
     has_redacted |-> ~c.raises /\ c.has_redacted,
     detected |-> IF c.raises THEN {} ELSE c.detected]

\* "policy.action == GuardrailAction.BLOCK" after a failed result
DeniesOrWarns(action) == action \in {"block", "allow_with_warning"}
Denies(action) == action = "block"

\* The body of check_request's loop from policy i on.  acc carries the
\* locals: prompt, allowed, results, and the invocations and counter
\* increments made so far.
RECURSIVE check_request_loop(_, _, _, _, _, _)
check_request_loop(active, i, acc, use_case, oracle, metrics) ==
    IF i > Len(active) THEN acc
    ELSE
      LET policy == active[i]
          t == policy.guardrail_type
      IN  IF ~should_pre_filter(t) \/ ~HasGuardrail(t)
          THEN check_request_loop(active, i + 1, acc, use_case, oracle, metrics)
          ELSE
            LET c == Classify(t, acc.prompt, policy.threshold, oracle)
                duration == oracle.duration[t]
                inv == Append(acc.invoked, Invocation(policy, acc.prompt, c, duration))
                over == /\ metrics /\ use_case # "" /\ use_case \in UseCase
                        /\ duration > get_guardrail_budget_ms(use_case)
            IN  IF c.raises
                THEN check_request_loop(active, i + 1,
                        [acc EXCEPT !.results = Append(@, ErrorResult(policy)),
                                    !.invoked = inv],
                        use_case, oracle, metrics)
                ELSE check_request_loop(active, i + 1,
                        [prompt |-> IF ~c.passed /\ policy.action = "redact"
                                       /\ c.has_redacted /\ c.redacted_content # {}
                                    THEN c.redacted_content ELSE acc.prompt,
                         allowed |-> acc.allowed /\ ~(~c.passed /\ Denies(policy.action)),
                         results |-> Append(acc.results, GuardrailResult(policy, c)),
                         invoked |-> inv,
                         exceeded |-> acc.exceeded + (IF over THEN 1 ELSE 0)],
                        use_case, oracle, metrics)

\* GuardrailService.check_request: ret is the returned (allowed, results)
check_request(pols, metrics, prompt, use_case, oracle) ==
    LET acc == check_request_loop(active_policies(pols, use_case), 1,
                   [prompt |-> prompt, allowed |-> TRUE, results |-> << >>,
                    invoked |-> << >>, exceeded |-> 0],
                   use_case, oracle, metrics)
    IN  [ret |-> [allowed |-> acc.allowed, results |-> acc.results],
         invoked |-> acc.invoked, final_content |-> acc.prompt,
         exceeded |-> acc.exceeded]

\* The body of check_response's loop from policy i on
RECURSIVE check_response_loop(_, _, _, _, _)
check_response_loop(pols, i, acc, response, oracle) ==
    IF i > Len(pols) THEN acc
    ELSE
      LET policy == pols[i]
          t == policy.guardrail_type
      IN  IF ~policy.enabled \/ ~should_post_filter(t) \/ ~HasGuardrail(t)
          THEN check_response_loop(pols, i + 1, acc, response, oracle)
          ELSE
            LET c == Classify(t, response, policy.threshold, oracle)
                inv == Append(acc.invoked,
                              Invocation(policy, response, c, oracle.duration[t]))
            IN  IF c.raises
                THEN check_response_loop(pols, i + 1,
                        [acc EXCEPT !.results = Append(@, ErrorResult(policy)),
                                    !.invoked = inv],
                        response, oracle)
                ELSE check_response_loop(pols, i + 1,
                        [allowed |-> acc.allowed /\ ~(~c.passed /\ Denies(policy.action)),
                         results |-> Append(acc.results, GuardrailResult(policy, c)),
                         invoked |-> inv],
                        response, oracle)

\* GuardrailService.check_response
check_response(pols, response, oracle) ==
    LET acc == check_response_loop(pols, 1,
                   [allowed |-> TRUE, results |-> << >>, invoked |-> << >>],
                   response, oracle)
    IN  [ret |-> [allowed |-> acc.allowed, results |-> acc.results],
         invoked |-> acc.invoked, final_content |-> response, exceeded |-> 0]

(***************************************************************************)
(* qos/qos_manager.py: RequestQueue and QoSManager.                        *)
(***************************************************************************)
QueueSizeLimit == 100
NoTimeout == 0

QoSLevel == {"high", "medium", "low"}

Request(request_id, model_id, priority, timestamp, timeout) ==
    [request_id |-> request_id, model_id |-> model_id, priority |-> priority,
     timestamp |-> timestamp, timeout |-> timeout]

\* None, where a Request is expected
NoRequest == Request(0, "", "none", 0, NoTimeout)

EmptyQueues == [level \in QoSLevel |-> << >>]

\* RequestQueue.enqueue
enqueue(qs, request) == [qs EXCEPT ![request.priority] = Append(@, request)]

\* The loop of RequestQueue.dequeue over the levels in the given order
RECURSIVE dequeue_in_order(_, _)
dequeue_in_order(qs, levels) ==
    IF levels = << >> THEN [ret |-> NoRequest, queues |-> qs]
    ELSE IF qs[Head(levels)] # << >>
         THEN [ret |-> Head(qs[Head(levels)]),
               queues |-> [qs EXCEPT ![Head(levels)] = Tail(@)]]
         ELSE dequeue_in_order(qs, Tail(levels))

\* dequeue that leaves the request it returns in its deque
dequeue_without_popleft(qs) == [ret |-> dequeue_in_order(qs, <<"high", "medium", "low">>).ret,
                                queues |-> qs]

\* dequeue that looks at the low band first
dequeue_low_first(qs) == dequeue_in_order(qs, <<"low", "medium", "high">>)

\* RequestQueue.dequeue
dequeue(qs) == dequeue_in_order(qs, <<"high", "medium", "low">>)

\* RequestQueue.size()
queue_size(qs) == Len(qs["high"]) + Len(qs["medium"]) + Len(qs["low"])

\* The while loop of clear_expired on one deque
RECURSIVE DropExpiredHeads(_, _)
DropExpiredHeads(q, current_time) ==
    IF /\ q # << >>
       /\ Head(q).timeout # NoTimeout
       /\ current_time - Head(q).timestamp > Head(q).timeout
    THEN DropExpiredHeads(Tail(q), current_time)
    ELSE q

\* RequestQueue.clear_expired
clear_expired(qs, current_time) ==
    [level \in QoSLevel |-> DropExpiredHeads(qs[level], current_time)]

\* "(current_time - queue[0].timestamp) > queue[0].timeout" with a timeout set
Expired(request, current_time) ==
    /\ request.timeout # NoTimeout
    /\ current_time - request.timestamp > request.timeout

\* The requests clear_expired removes, band by band
Removed(qs, current_time) ==
    LET gone(level) == SubSeq(qs[level], 1,
                              Len(qs[level]) - Len(DropExpiredHeads(qs[level], current_time)))
    IN  gone("high") \o gone("medium") \o gone("low")

\* QoSManager.submit_request
submit_request(qs, limits, request) ==
    IF request.model_id \in limits /\ queue_size(qs) > QueueSizeLimit
    THEN [ok |-> FALSE, queues |-> qs]
    ELSE [ok |-> TRUE, queues |-> enqueue(qs, request)]

\* QoSManager.get_next_request
get_next_request(qs, current_time) == dequeue(clear_expired(qs, current_time))

\* QoSManager.set_resource_limit; limit in hundredths, ok = no ValueError
set_resource_limit(limits, model_id, limit) ==
    IF ~(0 <= limit /\ limit <= 100) THEN [ok |-> FALSE, resource_limits |-> limits]
    ELSE [ok |-> TRUE, resource_limits |-> limits \cup {model_id}]

(***************************************************************************)
(* qos/qos_manager.py: SLO tracking.  Latencies are in ms; a throughput is *)
(* in sixtieths of a request per second, so that total_requests / 60.0 is  *)
(* the number total_requests.                                              *)
(***************************************************************************)
SLO(model_id, max_latency_seconds, min_throughput_per_second) ==
    [model_id |-> model_id, max_latency_seconds |-> max_latency_seconds,
     min_throughput_per_second |-> min_throughput_per_second]

\* The tallies register_slo and record_request_completion start from
NewStats == [total_requests |-> 0, completed_requests |-> 0, failed_requests |-> 0,
             total_latency |-> 0]

\* QoSManager.register_slo
register_slo(sl, stats, slo) ==
    [slos |-> Put(sl, slo.model_id, slo),
     request_stats |-> IF slo.model_id \in DOMAIN stats THEN stats
                       ELSE Put(stats, slo.model_id, NewStats)]

\* QoSManager.record_request_completion
record_request_completion(stats, model_id, latency, success) ==
    LET old == IF model_id \in DOMAIN stats THEN stats[model_id] ELSE NewStats
    IN  Put(stats, model_id,
            IF success
            THEN [old EXCEPT !.total_requests = @ + 1, !.completed_requests = @ + 1,
                             !.total_latency = @ + latency]
            ELSE [old EXCEPT !.total_requests = @ + 1, !.failed_requests = @ + 1])

\* The empty metrics dict
NoMetrics == [total_requests |-> 0, completed_requests |-> 0, failed_requests |-> 0,
              avg_latency |-> <<0, 0>>, throughput |-> 0,
              latency_compliant |-> TRUE, throughput_compliant |-> TRUE]

\* The compliance verdict for tallies st under slo, with the throughput
\* taken from the count n.  avg_latency is the fraction
\* <<total_latency, completed_requests>>; avg <= max is compared exactly.
Compliance(slo, st, n) ==
    LET latency_compliant ==
            st.total_latency <= slo.max_latency_seconds * st.completed_requests
        throughput_compliant == n >= slo.min_throughput_per_second
    IN  [compliant |-> latency_compliant /\ throughput_compliant,
         metrics |-> [total_requests |-> st.total_requests,
                      completed_requests |-> st.completed_requests,
                      failed_requests |-> st.failed_requests,
                      avg_latency |-> <<st.total_latency, st.completed_requests>>,
                      throughput |-> n,
                      latency_compliant |-> latency_compliant,
                      throughput_compliant |-> throughput_compliant]]

\* check_slo_compliance that takes the throughput from the completed requests
check_slo_compliance_completed_only(sl, stats, model_id) ==
    IF model_id \notin DOMAIN sl THEN [compliant |-> TRUE, metrics |-> NoMetrics]
    ELSE LET st == IF model_id \in DOMAIN stats THEN stats[model_id] ELSE NewStats
         IN  IF st.completed_requests = 0 THEN [compliant |-> TRUE, metrics |-> NoMetrics]
             ELSE Compliance(sl[model_id], st, st.completed_requests)

\* QoSManager.check_slo_compliance
check_slo_compliance(sl, stats, model_id) ==
    IF model_id \notin DOMAIN sl THEN [compliant |-> TRUE, metrics |-> NoMetrics]
    ELSE LET st == IF model_id \in DOMAIN stats THEN stats[model_id] ELSE NewStats
         IN  IF st.completed_requests = 0 THEN [compliant |-> TRUE, metrics |-> NoMetrics]
             ELSE Compliance(sl[model_id], st, st.total_requests)

(***************************************************************************)
(* k8s/controller/partition_controller.py: PartitionController.            *)
(***************************************************************************)
\* spec.get('gpuSharing'): absent, or a dict with 'enabled', 'memoryLimitGB'
\* and 'preferredPartition'
DefaultMemoryLimitGB == 20

GpuSharing(present, enabled, preferredPartition) ==
    [present |-> present, enabled |-> enabled, memoryLimitGB |-> DefaultMemoryLimitGB,
     preferredPartition |-> preferredPartition]

\* A _should_manage that looks only at the presence of the section
should_manage_any_section(gpu_config) == gpu_config.present

\* PartitionController._should_manage
should_manage(gpu_config) == gpu_config.present /\ gpu_config.enabled

\* The parameters ModelScheduler.schedule_model declares
ScheduleModelParameters == {"model_id", "priority", "preferred_partition", "precision"}

\* The keyword arguments PartitionController._schedule_model passes to it
ScheduleModelKeywords == {"model_id", "memory_gb", "preferred_partition", "priority"}

\* A call with a keyword the function does not declare raises TypeError
RaisesTypeError(keywords, parameters) == ~(keywords \subseteq parameters)

NoInfo == [partitionId |-> NoPartition, computeMode |-> "", memoryMode |-> "",
           partitionSizeGB |-> 0, allocatedMemoryGB |-> 0, availableMemoryGB |-> 0]

\* The partition info dict _schedule_model returns for a partition
PartitionInfo(cm, mm, parts, partition_id) ==
    [partitionId |-> partition_id,
     computeMode |-> IF cm # NoneMode THEN cm ELSE "SPX",
     memoryMode |-> IF mm # NoneMode THEN mm ELSE "NPS1",
     partitionSizeGB |-> parts[partition_id].size_bytes,
     allocatedMemoryGB |-> parts[partition_id].allocated_bytes,
     availableMemoryGB |-> parts[partition_id].size_bytes
                             - parts[partition_id].allocated_bytes]

\* PartitionController._schedule_model: any exception of the call is caught
\* and gives None (NoInfo), as does a failed schedule_model.
controller_schedule_model(k, init, cm, mm, parts, mods, assign, name, gpu_config) ==
    LET none == [info |-> NoInfo, partitions |-> parts, models |-> mods,
                 partition_assignments |-> assign]
    IN  IF RaisesTypeError(ScheduleModelKeywords, ScheduleModelParameters) THEN none
        ELSE
          LET r == schedule_model(k, init, parts, mods, assign, name, 0,
                                  gpu_config.preferredPartition, "fp16")
          IN  IF ~r.ok THEN none
              ELSE IF ~HasPartition(r.partitions, r.ret_partition)
              THEN [none EXCEPT !.partitions = r.partitions, !.models = r.models,
                                !.partition_assignments = r.partition_assignments]
              ELSE [info |-> PartitionInfo(cm, mm, r.partitions, r.ret_partition),
                    partitions |-> r.partitions, models |-> r.models,
                    partition_assignments |-> r.partition_assignments]

\* PartitionController._update_status: the status replaces the resource's;
\* a resource that is gone (404) gets none.
update_status(res, st, name, partition_info, condition_status, reason) ==
    IF name \notin DOMAIN res THEN st
    ELSE Put(st, name, [partitionInfo |-> partition_info, type |-> "PartitionAllocated",
                        status |-> condition_status, reason |-> reason])

\* PartitionController.reconcile
reconcile(k, init, cm, mm, parts, mods, assign, res, st, name, gpu_config) ==
    IF ~should_manage(gpu_config)
    THEN [partitions |-> parts, models |-> mods, partition_assignments |-> assign,
          status |-> st, outcome |-> "skipped"]
    ELSE
      LET r == controller_schedule_model(k, init, cm, mm, parts, mods, assign,
                                         name, gpu_config)
      IN  [partitions |-> r.partitions, models |-> r.models,
           partition_assignments |-> r.partition_assignments,
           status |-> IF r.info # NoInfo
                      THEN update_status(res, st, name, r.info, "True", "Scheduled")
                      ELSE update_status(res, st, name, NoInfo, "False",
                                         "SchedulingFailed"),
           outcome |-> IF r.info # NoInfo THEN "scheduled" ELSE "failed"]

\* A handle_delete that lets the KeyError of an unknown name through
handle_delete_raises(k, parts, mods, assign, name) ==
    LET r == unschedule_model(k, parts, mods, assign, name)
    IN  [raised |-> name \notin DOMAIN mods, partitions |-> r.partitions,
         models |-> r.models, partition_assignments |-> r.partition_assignments]

\* PartitionController.handle_delete -> _unschedule_model: unschedule_model
\* returns False for an unknown name and raises nothing
handle_delete(k, parts, mods, assign, name) ==
    LET r == unschedule_model(k, parts, mods, assign, name)
    IN  [raised |-> FALSE, partitions |-> r.partitions, models |-> r.models,
         partition_assignments |-> r.partition_assignments]

(***************************************************************************)
(* guardrails/traffic/rate_limiter.py: RateLimiter.  Times are in seconds.  *)
(***************************************************************************)
requests_per_minute == 1
requests_per_hour == 2
requests_per_day == 3
max_context_length == 8192

MinuteWindow == 60
HourWindow == 3600
DayWindow == 86400

Windows == {"minute", "hour", "day"}
WindowLength == [minute |-> MinuteWindow, hour |-> HourWindow, day |-> DayWindow]
WindowLimit == [minute |-> requests_per_minute, hour |-> requests_per_hour,
                day |-> requests_per_day]

\* [t for t in entries if now - t <= length]: keeps an entry exactly one
\* window length old
RECURSIVE RecentInclusive(_, _, _)
RecentInclusive(entries, now, length) ==
    IF entries = << >> THEN << >>
    ELSE IF now - Head(entries) <= length
         THEN <<Head(entries)>> \o RecentInclusive(Tail(entries), now, length)
         ELSE RecentInclusive(Tail(entries), now, length)

\* [t for t in entries if now - t < length]
RECURSIVE Recent(_, _, _)
Recent(entries, now, length) ==
    IF entries = << >> THEN << >>
    ELSE IF now - Head(entries) < length
         THEN <<Head(entries)>> \o Recent(Tail(entries), now, length)
         ELSE Recent(Tail(entries), now, length)

\* A cleaning that also records the call in each window
clean_and_record(counts, identifier, now) ==
    [x \in (DOMAIN counts) \cup {identifier} |->
        IF x = identifier
        THEN [w \in Windows |->
                 Append(IF identifier \in DOMAIN counts
                        THEN Recent(counts[identifier][w], now, WindowLength[w]) ELSE << >>,
                        now)]
        ELSE counts[x]]

\* RateLimiter._clean_old_entries; an identifier not seen yet has empty lists
clean_old_entries(counts, identifier, now) ==
    [x \in (DOMAIN counts) \cup {identifier} |->
        IF x = identifier
        THEN [w \in Windows |->
                 IF identifier \in DOMAIN counts
                 THEN Recent(counts[identifier][w], now, WindowLength[w]) ELSE << >>]
        ELSE counts[x]]

\* "len(...) > limit", where the code has ">="
OverLimit(n, limit) == n > limit

\* "len(minute_requests) >= self.config.requests_per_minute"
AtLimit(n, limit) == n >= limit

\* No geo given (None)
NoGeo == ""

\* "self.config.allowed_geos and geo and geo not in self.config.allowed_geos":
\* an empty or missing list and a missing geo are falsy
geo_denied(geos, geo) == geos # {} /\ geo # NoGeo /\ geo \notin geos

\* RateLimiter.check_rate_limit with upload_size_mb 0 and the default
\* business_hours_only (False); api_key "" is None.  The entries are cleaned
\* only when the call gets past the checks of the request itself.
check_rate_limit(counts, blocked, geos, now, user_id, api_key, context_length, geo) ==
    LET identifier == IF api_key # "" THEN api_key ELSE user_id
        cleaned == clean_old_entries(counts, identifier, now)
        deny(msg, c) == [allowed |-> FALSE, message |-> msg, identifier |-> identifier,
                         request_counts |-> c]
    IN  IF identifier \in blocked THEN deny("User is blocked", counts)
        ELSE IF context_length > max_context_length
        THEN deny("Context length exceeds limit", counts)
        ELSE IF geo_denied(geos, geo) THEN deny("Access not allowed", counts)
        ELSE IF AtLimit(Len(cleaned[identifier]["minute"]), requests_per_minute)
        THEN deny("Rate limit exceeded: per minute", cleaned)
        ELSE IF AtLimit(Len(cleaned[identifier]["hour"]), requests_per_hour)
        THEN deny("Rate limit exceeded: per hour", cleaned)
        ELSE IF AtLimit(Len(cleaned[identifier]["day"]), requests_per_day)
        THEN deny("Rate limit exceeded: per day", cleaned)
        ELSE [allowed |-> TRUE, message |-> "Allowed", identifier |-> identifier,
              request_counts |->
                  [cleaned EXCEPT ![identifier] =
                      [w \in Windows |-> Append(cleaned[identifier][w], now)]]]

(***************************************************************************)
(* Actions: the partitioner's public operations.                           *)
(***************************************************************************)
SimLayouts == {<<40, 40>>, <<6, 24>>, <<100, 100>>}

NoInit == [gpu_name |-> "", args |-> << >>, set_failed_off_mode |-> FALSE, ok |-> FALSE]

Record(call) ==
    /\ nops < MaxOps
    /\ nops' = nops + 1
    /\ lastCall' = call
    /\ beforeSchedule' = IF call.op = "schedule_model" THEN partitions ELSE << >>
    /\ lastInit' = lastInit

\* During a real initialize of a partitioner in state st, a set-mode command
\* was issued and failed (non-zero exit or exception) while the device was
\* in another mode than the requested one
SetFailedOffMode(st, cmode, mmode, qc, oc, qm, om) ==
    LET c == SetComputeModeResult(st.compute_mode, st.devCompute, cmode, qc, oc)
        m == SetMemoryModeResult(c.compute_mode, st.memory_mode, st.devMemory, mmode, qm, om)
    IN  /\ ~st.initialized
        /\ st.amd_smi_available
        /\ \/ c.issued = 1 /\ oc # "ok" /\ st.devCompute # cmode
           \/ c.ok /\ m.issued = 1 /\ om # "ok" /\ st.devMemory # mmode

\* The record of an initialize call: args is the list of partition sizes
\* (simulation) or the pair of requested modes (real)
RecordInitialize(gpu_name, args, set_failed_off_mode, ok) ==
    /\ nops < MaxOps
    /\ nops' = nops + 1
    /\ lastCall' = Call("initialize", "", "", NoPartition, ok, NoPartition)
    /\ beforeSchedule' = << >>
    /\ lastInit' = [gpu_name |-> gpu_name, args |-> args,
                    set_failed_off_mode |-> set_failed_off_mode, ok |-> ok]

SimInitialize ==
    /\ kind = "sim"
    /\ \E gpu_name \in GpuNames, sizes \in SimLayouts :
         \E r \in {SimInitializeResult(initialized, partitions, gpu_name, sizes)} :
             /\ initialized' = r.initialized
             /\ partitions' = r.partitions
             /\ RecordInitialize(gpu_name, sizes, FALSE, r.ok)
    /\ UNCHANGED <<restVars, kind, compute_mode, memory_mode, amd_smi_available, devCompute,
                   devMemory, setCommands, schedVars, guardVars, qosVars, rateVars, ctlVars>>

\* The answers the device can give during one initialize: the two mode
\* queries (the mode, or NoneMode when the query fails) and the outcomes of
\* the two set commands.  A partitioner that is already initialized, or has
\* no amd-smi, returns before it asks the device anything.
DeviceAnswers ==
    IF initialized \/ ~amd_smi_available
    THEN {<<NoneMode, "fail", NoneMode, "fail">>}
    ELSE {devCompute, NoneMode} \X SetOutcomes \X {devMemory, NoneMode} \X SetOutcomes

RealInitialize ==
    /\ kind = "real"
    /\ \E gpu_name \in GpuNames, cmode \in ComputePartitionMode, mmode \in MemoryPartitionMode,
          ans \in DeviceAnswers :
         \E st \in {[initialized |-> initialized, partitions |-> partitions,
                     compute_mode |-> compute_mode, memory_mode |-> memory_mode,
                     amd_smi_available |-> amd_smi_available,
                     devCompute |-> devCompute, devMemory |-> devMemory,
                     setCommands |-> setCommands]} :
           \E r \in {RealInitializeResult(st, gpu_name, cmode, mmode,
                                          ans[1], ans[2], ans[3], ans[4])} :
             /\ initialized' = r.initialized
             /\ partitions' = r.partitions
             /\ compute_mode' = r.compute_mode
             /\ memory_mode' = r.memory_mode
             /\ devCompute' = r.devCompute
             /\ devMemory' = r.devMemory
             /\ setCommands' = r.setCommands
             /\ RecordInitialize(gpu_name, <<cmode, mmode>>,
                                 SetFailedOffMode(st, cmode, mmode,
                                                  ans[1], ans[2], ans[3], ans[4]),
                                 r.ok)
    /\ UNCHANGED <<restVars, kind, amd_smi_available, schedVars, guardVars, qosVars, rateVars, ctlVars>>

PartitionArgs == {0, 1}

\* No reset command ran
NoReset == <<"none", "none">>

\* ROCmPartitionerReal.reset_partitions on a partitioner in state st: oc
\* and om are the outcomes of the two amd-smi reset commands (exit code 0,
\* another exit code, or an exception out of subprocess.run)
reset_partitions(st, oc, om) ==
    LET dev1 == IF oc = "ok" THEN "SPX" ELSE st.devCompute
        unchanged == [ok |-> FALSE, initialized |-> st.initialized,
                      partitions |-> st.partitions,
                      compute_mode |-> st.compute_mode, memory_mode |-> st.memory_mode,
                      devCompute |-> st.devCompute, devMemory |-> st.devMemory]
    IN  IF ~st.amd_smi_available THEN unchanged
        ELSE IF oc = "raise" THEN unchanged
        ELSE IF om = "raise" THEN [unchanged EXCEPT !.devCompute = dev1]
        ELSE [ok |-> TRUE, initialized |-> FALSE, partitions |-> << >>,
              compute_mode |-> NoneMode, memory_mode |-> NoneMode,
              devCompute |-> dev1,
              devMemory |-> IF om = "ok" THEN "NPS1" ELSE st.devMemory]

\* The reset commands that ran, with their outcomes
ResetAnswers(st, oc, om) ==
    IF ~st.amd_smi_available THEN NoReset
    ELSE IF oc = "raise" THEN <<oc, "none">>
    ELSE <<oc, om>>

ResetPartitions ==
    /\ kind = "real"
    /\ \E oc \in SetOutcomes, om \in SetOutcomes :
         \E st \in {[initialized |-> initialized, partitions |-> partitions,
                     compute_mode |-> compute_mode, memory_mode |-> memory_mode,
                     amd_smi_available |-> amd_smi_available,
                     devCompute |-> devCompute, devMemory |-> devMemory]} :
           \E r \in {reset_partitions(st, oc, om)} :
             /\ initialized' = r.initialized
             /\ partitions' = r.partitions
             /\ compute_mode' = r.compute_mode
             /\ memory_mode' = r.memory_mode
             /\ devCompute' = r.devCompute
             /\ devMemory' = r.devMemory
             /\ lastReset' = ResetAnswers(st, oc, om)
             /\ Record(Call("reset_partitions", "", "", NoPartition, r.ok, NoPartition))
    /\ UNCHANGED <<sloVars, proxyVars, isoVars, allocConcVars, rateConcVars, qosConcVars,
                   kind, amd_smi_available, setCommands,
                   schedVars, guardVars, qosVars, rateVars, ctlVars>>

(***************************************************************************)
(* resource_isolator.py: ResourceIsolator.                                 *)
(***************************************************************************)
MaxIsolatorCalls == 4

\* None for max_units / min_units
NoUnits == -1

ComputeLimits(max_compute_units, min_compute_units, priority) ==
    [max_compute_units |-> max_compute_units, min_compute_units |-> min_compute_units,
     priority |-> priority]

\* ResourceIsolator.initialize, for a non-empty list of partition ids
isolator_initialize(st, total, partition_ids) ==
    IF st.initialized THEN [ok |-> FALSE, st |-> st]
    ELSE [ok |-> TRUE,
          st |-> [initialized |-> TRUE, total_compute_units |-> total,
                  compute_limits |->
                      [x \in (DOMAIN st.compute_limits) \cup partition_ids |->
                          IF x \in partition_ids
                          THEN ComputeLimits(total \div Cardinality(partition_ids),
                                             total \div Cardinality(partition_ids), 0)
                          ELSE st.compute_limits[x]]]]

\* ResourceIsolator.set_partition_limits: limits is the partition's record,
\* written field by field as the tests pass
set_partition_limits(st, partition_id, max_units, min_units, priority) ==
    IF partition_id \notin DOMAIN st.compute_limits THEN [ok |-> FALSE, st |-> st]
    ELSE IF max_units # NoUnits /\ max_units > st.total_compute_units
    THEN [ok |-> FALSE, st |-> st]
    ELSE
      LET st1 == IF max_units # NoUnits
                 THEN [st EXCEPT !.compute_limits[partition_id].max_compute_units = max_units]
                 ELSE st
      IN  IF min_units # NoUnits /\ min_units > st.total_compute_units
          THEN [ok |-> FALSE, st |-> st1]
          ELSE
            LET st2 == IF min_units # NoUnits
                       THEN [st1 EXCEPT !.compute_limits[partition_id].min_compute_units
                                            = min_units]
                       ELSE st1
            IN  [ok |-> TRUE,
                 st |-> [st2 EXCEPT !.compute_limits[partition_id].priority = priority]]

IsolatorState == [initialized |-> isolatorInitialized,
                  total_compute_units |-> total_compute_units,
                  compute_limits |-> compute_limits]

TotalUnits == {8}
PartitionIdLists == {{0, 1}}
UnitArgs == {NoUnits, 2, 16}
PriorityArgs == {0, 10}

NoIsolatorCall == [op |-> "none", ok |-> FALSE]

IsolatorInitialize ==
    /\ isolatorCalls < MaxIsolatorCalls
    /\ isolatorCalls' = isolatorCalls + 1
    /\ \E total \in TotalUnits, partition_ids \in PartitionIdLists :
         \E r \in {isolator_initialize(IsolatorState, total, partition_ids)} :
           /\ isolatorInitialized' = r.st.initialized
           /\ total_compute_units' = r.st.total_compute_units
           /\ compute_limits' = r.st.compute_limits
           /\ lastIsolatorCall' = [op |-> "initialize", ok |-> r.ok]
    /\ UNCHANGED <<partVars, schedVars, histVars, guardVars, qosVars, rateVars, ctlVars,
                   sloVars, proxyVars, resetVars, allocConcVars, rateConcVars, qosConcVars>>

SetPartitionLimits ==
    /\ isolatorCalls < MaxIsolatorCalls
    /\ isolatorCalls' = isolatorCalls + 1
    /\ \E partition_id \in PartitionArgs \cup {99}, max_units \in UnitArgs,
          min_units \in UnitArgs, priority \in PriorityArgs :
         \E r \in {set_partition_limits(IsolatorState, partition_id, max_units, min_units,
                                       priority)} :
           /\ compute_limits' = r.st.compute_limits
           /\ lastIsolatorCall' = [op |-> "set_partition_limits", ok |-> r.ok]
    /\ UNCHANGED <<partVars, schedVars, histVars, guardVars, qosVars, rateVars, ctlVars,
                   sloVars, proxyVars, resetVars, allocConcVars, rateConcVars, qosConcVars,
                   total_compute_units, isolatorInitialized>>

(***************************************************************************)
(* allocate_model called from several threads.  The class takes no lock,   *)
(* so a thread can be preempted between the free-space test and the        *)
(* update of the partition.                                                *)
(***************************************************************************)
ThreadIds == {1, 2}
MaxAllocCalls == 3

ThreadOutside == [pc |-> "outside", model_id |-> "", partition_id |-> NoPartition,
                  model_size_bytes |-> 0, ok |-> FALSE]

\* allocate_model up to and including "if model_size_bytes > available"
AllocateCheck(t) ==
    /\ allocThreads[t].pc = "outside"
    /\ allocCalls < MaxAllocCalls
    /\ allocCalls' = allocCalls + 1
    /\ \E model_id \in ModelIds, partition_id \in PartitionArgs :
         \E r \in {allocate_model(kind, initialized, partitions, model_id, partition_id, "fp16")} :
           allocThreads' = [allocThreads EXCEPT ![t] =
               [pc |-> IF r.ok THEN "fits" ELSE "outside",
                model_id |-> model_id, partition_id |-> partition_id,
                model_size_bytes |-> estimate_model_size(model_id,
                                                         AllocatePrecision(kind, "fp16")),
                ok |-> FALSE]]
    /\ UNCHANGED <<partVars, schedVars, histVars, guardVars, qosVars, rateVars, ctlVars,
                   sloVars, proxyVars, isoVars, resetVars, rateConcVars, qosConcVars>>

\* "partition.models.append(model_id)", "partition.allocated_bytes +=
\* model_size_bytes" and the return
AllocateUpdate(t) ==
    /\ allocThreads[t].pc = "fits"
    /\ partitions' = [partitions EXCEPT ![allocThreads[t].partition_id] =
                         [@ EXCEPT !.models = Append(@, allocThreads[t].model_id),
                                   !.allocated_bytes = @ + allocThreads[t].model_size_bytes]]
    /\ allocThreads' = [allocThreads EXCEPT ![t].pc = "outside", ![t].ok = TRUE]
    /\ UNCHANGED <<kind, initialized, compute_mode, memory_mode, amd_smi_available,
                   devCompute, devMemory, setCommands, schedVars, histVars, guardVars,
                   qosVars, rateVars, ctlVars, sloVars, proxyVars, isoVars, resetVars, allocCalls,
                   rateConcVars, qosConcVars>>


AllocateModel ==
    /\ \E model_id \in ModelIds, partition_id \in PartitionArgs, precision \in Precisions :
         \E r \in {allocate_model(kind, initialized, partitions, model_id, partition_id, precision)} :
             /\ partitions' = r.partitions
             /\ Record(Call("allocate_model", model_id, precision, partition_id,
                            r.ok, NoPartition))
    /\ UNCHANGED <<restVars, kind, initialized, compute_mode, memory_mode, amd_smi_available,
                   devCompute, devMemory, setCommands, schedVars, guardVars, qosVars, rateVars, ctlVars>>

DeallocateModel ==
    /\ \E model_id \in ModelIds, partition_id \in PartitionArgs :
         \E r \in {deallocate_model(kind, partitions, model_id, partition_id)} :
             /\ partitions' = r.partitions
             /\ Record(Call("deallocate_model", model_id, "", partition_id,
                            r.ok, NoPartition))
    /\ UNCHANGED <<restVars, kind, initialized, compute_mode, memory_mode, amd_smi_available,
                   devCompute, devMemory, setCommands, schedVars, guardVars, qosVars, rateVars, ctlVars>>

(***************************************************************************)
(* Actions: the scheduler's public operations.                             *)
(***************************************************************************)
ScheduleModel ==
    /\ \E model_id \in ModelIds, priority \in Priorities,
          preferred \in PreferredChoices, precision \in Precisions :
         \E r \in {schedule_model(kind, initialized, partitions, models,
                                 partition_assignments, model_id, priority,
                                 preferred, precision)} :
             /\ partitions' = r.partitions
             /\ models' = r.models
             /\ partition_assignments' = r.partition_assignments
             /\ Record(Call("schedule_model", model_id, precision, preferred,
                            r.ok, r.ret_partition))
    /\ UNCHANGED <<restVars, kind, initialized, compute_mode, memory_mode, amd_smi_available,
                   devCompute, devMemory, setCommands, guardVars, qosVars, rateVars, ctlVars>>

UnscheduleModel ==
    /\ \E model_id \in ModelIds :
         \E r \in {unschedule_model(kind, partitions, models, partition_assignments, model_id)} :
             /\ partitions' = r.partitions
             /\ models' = r.models
             /\ partition_assignments' = r.partition_assignments
             /\ Record(Call("unschedule_model", model_id, "", NoPartition,
                            r.ok, NoPartition))
    /\ UNCHANGED <<restVars, kind, initialized, compute_mode, memory_mode, amd_smi_available,
                   devCompute, devMemory, setCommands, guardVars, qosVars, rateVars, ctlVars>>

UpdateModelStatus ==
    /\ \E model_id \in ModelIds, status \in ModelStatus :
         \E r \in {update_model_status(models, model_id, status)} :
             /\ models' = r.models
             /\ Record(Call("update_model_status", model_id, "", NoPartition,
                            r.ok, NoPartition))
    /\ UNCHANGED <<restVars, partVars, partition_assignments, guardVars, qosVars, rateVars, ctlVars>>

(***************************************************************************)
(* Actions: the guardrail service's checks.                                *)
(***************************************************************************)
MaxBudgetExceeded == 2

Durations == {20, 120}
Contents == {{}, {"email"}, {"email", "ssn"}}
UseCaseArgs == {"", "chat"}

\* What the classifiers do during one check: the learned ones pass, fail or
\* raise, and each classifier takes one of Durations.
Outcomes == {"pass", "fail", "raise"}

\* The oracle as the checkers of this service see it: a checker whose model
\* did not load (self.model is None after _load_model) never reaches the
\* model and returns "Model not available"
WithLoadedModels(oracle, unavailable) ==
    [oracle EXCEPT !.outcome = [t \in DOMAIN oracle.outcome |->
                                   IF t \in unavailable THEN "unavailable"
                                   ELSE oracle.outcome[t]]]
RequestOracles ==
    [outcome : [{"toxicity", "prompt_injection"} -> Outcomes],
     duration : [{"toxicity", "pii", "prompt_injection"} -> Durations]]
ResponseOracles ==
    [outcome : [{"toxicity"} -> Outcomes],
     duration : [{"toxicity", "pii"} -> Durations]]

NoCheck == [op |-> "none", use_case |-> "", content |-> {},
            ret |-> [allowed |-> TRUE, results |-> << >>],
            invoked |-> << >>, final_content |-> {}, exceeded |-> 0]

Checked(op, use_case, content, r) ==
    [op |-> op, use_case |-> use_case, content |-> content, ret |-> r.ret,
     invoked |-> r.invoked, final_content |-> r.final_content, exceeded |-> r.exceeded]

CheckRequest ==
    /\ latency_budget_exceeded < MaxBudgetExceeded
    /\ \E prompt \in Contents, use_case \in UseCaseArgs, oracle \in RequestOracles :
         \E r \in {check_request(policies, metrics_enabled, prompt, use_case,
                                  WithLoadedModels(oracle, unavailable_models))} :
             /\ latency_budget_exceeded' = latency_budget_exceeded + r.exceeded
             /\ lastCheck' = Checked("check_request", use_case, prompt, r)
    /\ UNCHANGED <<restVars, partVars, schedVars, histVars, policies, metrics_enabled,
                   unavailable_models, qosVars, rateVars, ctlVars>>

CheckResponse ==
    /\ \E response \in Contents, oracle \in ResponseOracles :
         \E r \in {check_response(policies, response,
                                   WithLoadedModels(oracle, unavailable_models))} :
             lastCheck' = Checked("check_response", "", response, r)
    /\ UNCHANGED <<restVars, partVars, schedVars, histVars, policies, metrics_enabled,
                   latency_budget_exceeded, unavailable_models, qosVars, rateVars, ctlVars>>

(***************************************************************************)
(* Actions: the QoS manager's operations and the passing of time.          *)
(***************************************************************************)
MaxRequests == 3
MaxClock == 2

Timeouts == {NoTimeout, 1}
Limits == {50, 150}

SubmitRequest ==
    /\ submitted < MaxRequests
    /\ \E priority \in QoSLevel, timeout \in Timeouts :
         \E request \in {Request(submitted + 1, Llama8B, priority, clock, timeout)} :
           \E r \in {submit_request(queues, resource_limits, request)} :
             /\ queues' = r.queues
             /\ submitted' = submitted + 1
             /\ lastQos' = [op |-> "submit_request", ok |-> r.ok, ret |-> request]
    /\ UNCHANGED <<restVars, partVars, schedVars, histVars, guardVars, rateVars, ctlVars, resource_limits, clock>>

GetNextRequest ==
    /\ \E r \in {get_next_request(queues, clock)} :
         /\ queues' = r.queues
         /\ lastQos' = [op |-> "get_next_request", ok |-> r.ret # NoRequest, ret |-> r.ret]
    /\ UNCHANGED <<restVars, partVars, schedVars, histVars, guardVars, rateVars, ctlVars, resource_limits, clock,
                   submitted>>

SetResourceLimit ==
    /\ \E limit \in Limits :
         \E r \in {set_resource_limit(resource_limits, Llama8B, limit)} :
             /\ resource_limits' = r.resource_limits
             /\ lastQos' = [op |-> "set_resource_limit", ok |-> r.ok, ret |-> NoRequest]
    /\ UNCHANGED <<restVars, partVars, schedVars, histVars, guardVars, rateVars, ctlVars, queues, clock, submitted>>

Tick ==
    /\ clock < MaxClock
    /\ clock' = clock + 1
    /\ UNCHANGED <<restVars, partVars, schedVars, histVars, guardVars, rateVars, ctlVars, queues, resource_limits,
                   submitted, lastQos>>

(***************************************************************************)
(* submit_request and get_next_request called from several threads.  Each  *)
(* RequestQueue method holds the queue's lock for its whole body; the      *)
(* manager's methods hold no lock across two of them.  What the calls      *)
(* accept, return and remove is kept in the three logs.                    *)
(***************************************************************************)
MaxConcurrentRequests == 2
ConcurrentLevels == {"high", "low"}

QosOutside == [pc |-> "outside", request |-> NoRequest, current_time |-> 0]

\* One more x in the tally
Tally(tally, x) == Put(tally, x, IF x \in DOMAIN tally THEN tally[x] + 1 ELSE 1)

RECURSIVE TallyAll(_, _)
TallyAll(tally, requests) ==
    IF requests = << >> THEN tally
    ELSE TallyAll(Tally(tally, Head(requests).request_id), Tail(requests))

\* submit_request up to the end of "with self._lock"
SubmitAdmission(t) ==
    /\ qosThreads[t].pc = "outside"
    /\ submitted < MaxConcurrentRequests
    /\ submitted' = submitted + 1
    /\ \E priority \in ConcurrentLevels, timeout \in Timeouts :
         \E request \in {Request(submitted + 1, Llama8B, priority, clock, timeout)} :
           IF request.model_id \in resource_limits /\ queue_size(queues) > QueueSizeLimit
           THEN qosThreads' = qosThreads
           ELSE qosThreads' = [qosThreads EXCEPT ![t] =
                                 [QosOutside EXCEPT !.pc = "admitted", !.request = request]]
    /\ UNCHANGED <<partVars, schedVars, histVars, guardVars, rateVars, ctlVars, queues,
                   resource_limits, clock, lastQos, sloVars, proxyVars, isoVars, resetVars, allocConcVars,
                   rateConcVars, acceptedLog, returnedLog, expiredLog>>

\* "self.request_queue.enqueue(request)" and return True
SubmitEnqueue(t) ==
    /\ qosThreads[t].pc = "admitted"
    /\ queues' = enqueue(queues, qosThreads[t].request)
    /\ acceptedLog' = acceptedLog \cup {qosThreads[t].request.request_id}
    /\ qosThreads' = [qosThreads EXCEPT ![t] = QosOutside]
    /\ UNCHANGED <<partVars, schedVars, histVars, guardVars, rateVars, ctlVars,
                   resource_limits, clock, submitted, lastQos, sloVars, proxyVars, isoVars, resetVars,
                   allocConcVars, rateConcVars, returnedLog, expiredLog>>

\* get_next_request: "current_time = time.time()" and clear_expired
GetClearExpired(t) ==
    /\ qosThreads[t].pc = "outside"
    /\ queues' = clear_expired(queues, clock)
    /\ expiredLog' = TallyAll(expiredLog, Removed(queues, clock))
    /\ qosThreads' = [qosThreads EXCEPT ![t] =
                         [QosOutside EXCEPT !.pc = "cleared", !.current_time = clock]]
    /\ UNCHANGED <<partVars, schedVars, histVars, guardVars, rateVars, ctlVars,
                   resource_limits, clock, submitted, lastQos, sloVars, proxyVars, isoVars, resetVars,
                   allocConcVars, rateConcVars, acceptedLog, returnedLog>>

\* get_next_request: "return self.request_queue.dequeue()"
GetDequeue(t) ==
    /\ qosThreads[t].pc = "cleared"
    /\ \E r \in {dequeue(queues)} :
         /\ queues' = r.queues
         /\ returnedLog' = IF r.ret = NoRequest THEN returnedLog
                           ELSE Tally(returnedLog,
                                      [request_id |-> r.ret.request_id,
                                       late |-> Expired(r.ret, qosThreads[t].current_time)])
    /\ qosThreads' = [qosThreads EXCEPT ![t] = QosOutside]
    /\ UNCHANGED <<partVars, schedVars, histVars, guardVars, rateVars, ctlVars,
                   resource_limits, clock, submitted, lastQos, sloVars, proxyVars, isoVars, resetVars,
                   allocConcVars, rateConcVars, acceptedLog, expiredLog>>

(***************************************************************************)
(* Actions: SLO tracking.                                                  *)
(***************************************************************************)
MaxSloOps == 4

SloModels == {Llama8B, Llama1B}
SloChoices == {SLO(m, 200, t) : m \in {Llama8B}, t \in {0, 2}}
Latencies == {100, 400}

NoSloCheck == [at |-> 0, model_id |-> "", compliant |-> TRUE, metrics |-> NoMetrics]

RegisterSlo ==
    /\ sloOps < MaxSloOps
    /\ \E slo \in SloChoices :
         \E r \in {register_slo(slos, request_stats, slo)} :
             /\ slos' = r.slos
             /\ request_stats' = r.request_stats
    /\ sloOps' = sloOps + 1
    /\ UNCHANGED <<partVars, schedVars, histVars, guardVars, qosVars, rateVars, ctlVars, lastSlo,
                   proxyVars, moreVars>>

RecordRequestCompletion ==
    /\ sloOps < MaxSloOps
    /\ \E model_id \in SloModels, latency \in Latencies, success \in BOOLEAN :
         request_stats' = record_request_completion(request_stats, model_id, latency, success)
    /\ sloOps' = sloOps + 1
    /\ UNCHANGED <<partVars, schedVars, histVars, guardVars, qosVars, rateVars, ctlVars,
                   slos, lastSlo, proxyVars, moreVars>>

CheckSloCompliance ==
    /\ sloOps < MaxSloOps
    /\ \E model_id \in SloModels :
         \E r \in {check_slo_compliance(slos, request_stats, model_id)} :
             lastSlo' = [at |-> sloOps + 1, model_id |-> model_id,
                         compliant |-> r.compliant, metrics |-> r.metrics]
    /\ sloOps' = sloOps + 1
    /\ UNCHANGED <<partVars, schedVars, histVars, guardVars, qosVars, rateVars, ctlVars,
                   slos, request_stats, proxyVars, moreVars>>

(***************************************************************************)
(* integration/inference_proxy.py: InferenceProxy.forward_request, in the  *)
(* steps the call goes through: the pre-filter, the POST to the inference  *)
(* endpoint, and the post-filter with the return.                          *)
(***************************************************************************)
MaxProxyCalls == 2

\* No text (None, or the empty string); texts are sets of what they hold
NoText == {"none"}

\* The keys under which an endpoint may put the generated text
PayloadKeys == {"response", "text", "generated_text"}

\* response.json(): the generated text under one key
Payload(key, text) == [key |-> key, text |-> text]
NoPayload == Payload("none", NoText)

\* response_data.get('response', '') or response_data.get('text', '')
model_response(response_data) ==
    IF response_data.key \in {"response", "text"} THEN response_data.text ELSE NoText

\* The loop over response_results: the last result with redacted content
\* is written to response_data['response']
RECURSIVE ApplyRedaction(_, _)
ApplyRedaction(response_data, results) ==
    IF results = << >> THEN response_data
    ELSE ApplyRedaction(IF Head(results).has_redacted /\ Head(results).redacted_content # {}
                        THEN [response_data EXCEPT !.redacted = Head(results).redacted_content]
                        ELSE response_data,
                        Tail(results))

ProxyIdle == [pc |-> "idle", prompt |-> NoText, request_allowed |-> FALSE,
              forwarded |-> FALSE, response_data |-> NoPayload,
              checked |-> NoText, response_allowed |-> FALSE,
              ret |-> [allowed |-> FALSE, response_data |-> NoPayload, redacted |-> NoText]]

\* The classifiers' answers during a forward_request; durations play no
\* part without metrics
ProxyRequestOracles == {o \in RequestOracles : \A t \in DOMAIN o.duration : o.duration[t] = 20}
ProxyResponseOracles == {o \in ResponseOracles : \A t \in DOMAIN o.duration : o.duration[t] = 20}

\* forward_request up to "if not allowed: return False, None, error_msg"
ProxyCheckRequest ==
    /\ proxy.pc \in {"idle", "done"}
    /\ proxyCalls < MaxProxyCalls
    /\ proxyCalls' = proxyCalls + 1
    /\ \E prompt \in Contents, oracle \in ProxyRequestOracles :
         \E r \in {check_request(policies, metrics_enabled, prompt, "",
                                  WithLoadedModels(oracle, unavailable_models))} :
             /\ lastCheck' = Checked("check_request", "", prompt, r)
             /\ proxy' = [ProxyIdle EXCEPT !.pc = IF r.ret.allowed THEN "post" ELSE "done",
                                           !.prompt = prompt,
                                           !.request_allowed = r.ret.allowed]
    /\ UNCHANGED <<partVars, schedVars, histVars, policies, metrics_enabled,
                   latency_budget_exceeded, unavailable_models, qosVars, rateVars, ctlVars,
                   sloVars, moreVars>>

\* requests.post(...), raise_for_status() and response.json(): the endpoint
\* fails, or answers with a payload
ProxyPost ==
    /\ proxy.pc = "post"
    /\ \/ proxy' = [proxy EXCEPT !.pc = "done", !.forwarded = TRUE]
       \/ \E key \in PayloadKeys, text \in Contents :
             proxy' = [proxy EXCEPT !.pc = "filter", !.forwarded = TRUE,
                                    !.response_data = Payload(key, text)]
    /\ UNCHANGED <<partVars, schedVars, histVars, guardVars, qosVars, rateVars, ctlVars,
                   sloVars, proxyCalls, moreVars>>

\* forward_request from "model_response = ..." to its return
ProxyFilterResponse ==
    /\ proxy.pc = "filter"
    /\ IF model_response(proxy.response_data) = NoText
       THEN /\ proxy' = [proxy EXCEPT !.pc = "done",
                                      !.ret = [allowed |-> TRUE,
                                               response_data |-> proxy.response_data,
                                               redacted |-> NoText]]
            /\ lastCheck' = lastCheck
       ELSE \E oracle \in ProxyResponseOracles :
              \E r \in {check_response(policies, model_response(proxy.response_data),
                                        WithLoadedModels(oracle, unavailable_models))} :
                /\ lastCheck' = Checked("check_response", "",
                                        model_response(proxy.response_data), r)
                /\ proxy' =
                     [proxy EXCEPT
                        !.pc = "done",
                        !.checked = model_response(proxy.response_data),
                        !.response_allowed = r.ret.allowed,
                        !.ret = IF r.ret.allowed
                                THEN ApplyRedaction([allowed |-> TRUE,
                                                     response_data |-> proxy.response_data,
                                                     redacted |-> NoText],
                                                    r.ret.results)
                                ELSE @]
    /\ UNCHANGED <<partVars, schedVars, histVars, policies, metrics_enabled,
                   latency_budget_exceeded, unavailable_models, qosVars, rateVars, ctlVars,
                   sloVars, proxyCalls, moreVars>>

(***************************************************************************)
(* Actions: the rate limiter's operations.  Time passes between calls and  *)
(* never runs backwards.                                                   *)
(***************************************************************************)
MaxRateCalls == 4

TimeSteps == {0, 30, 60, 3600, 86400}
UserIds == {"u1"}
ApiKeys == {"", "k1"}
ContextLengths == {0, max_context_length + 1}

\* The geo values requests carry: none without an allow-list, and with one
\* none, a listed and an unlisted geo
Geos(geos) == IF geos = {} THEN {NoGeo} ELSE {NoGeo, "US", "CN"}

CheckRateLimit ==
    /\ rateCalls < MaxRateCalls
    /\ \E dt \in TimeSteps, user_id \in UserIds, api_key \in ApiKeys,
          context_length \in ContextLengths, geo \in Geos(allowed_geos) :
         \E r \in {check_rate_limit(request_counts, blocked_users, allowed_geos,
                                   rateClock + dt, user_id, api_key, context_length,
                                   geo)} :
             /\ rateClock' = rateClock + dt
             /\ request_counts' = r.request_counts
             /\ allowedLog' = IF r.allowed
                              THEN Put(allowedLog, r.identifier,
                                       Append(IF r.identifier \in DOMAIN allowedLog
                                              THEN allowedLog[r.identifier] ELSE << >>,
                                              rateClock + dt))
                              ELSE allowedLog
             /\ lastRate' = [allowed |-> r.allowed, message |-> r.message,
                             identifier |-> r.identifier, now |-> rateClock + dt,
                             geo |-> geo]
             /\ minuteDenial' =
                  IF r.allowed
                  THEN IF r.identifier \in DOMAIN minuteDenial
                          /\ minuteDenial[r.identifier] = "denied"
                       THEN Put(minuteDenial, r.identifier, "recovered")
                       ELSE Del(minuteDenial, r.identifier)
                  ELSE IF r.message = "Rate limit exceeded: per minute"
                       THEN Put(minuteDenial, r.identifier, "denied")
                       ELSE minuteDenial
             /\ rateCalls' = rateCalls + 1
    /\ UNCHANGED <<restVars, partVars, schedVars, histVars, guardVars, qosVars, ctlVars, blocked_users,
                   allowed_geos>>

(***************************************************************************)
(* check_rate_limit called from several threads.  RateLimiter takes no     *)
(* lock, so a thread can be preempted between the limit tests and the      *)
(* appends of "Record request".                                            *)
(***************************************************************************)
ConcurrentTimeSteps == {0, 30, 60}

RateOutside == [pc |-> "outside", identifier |-> "", now |-> 0]

\* check_rate_limit up to and including the per-day test
RateLimitTests(t) ==
    /\ rateThreads[t].pc = "outside"
    /\ rateCalls < MaxRateCalls
    /\ rateCalls' = rateCalls + 1
    /\ \E dt \in ConcurrentTimeSteps, api_key \in ApiKeys :
         \E r \in {check_rate_limit(request_counts, blocked_users, allowed_geos,
                                   rateClock + dt, "u1", api_key, 0, NoGeo)} :
           /\ rateClock' = rateClock + dt
           /\ request_counts' = IF r.allowed
                                THEN clean_old_entries(request_counts, r.identifier,
                                                       rateClock + dt)
                                ELSE r.request_counts
           /\ rateThreads' = [rateThreads EXCEPT ![t] =
                                 [pc |-> IF r.allowed THEN "passed" ELSE "outside",
                                  identifier |-> r.identifier, now |-> rateClock + dt]]
           /\ lastRate' = IF r.allowed THEN lastRate
                          ELSE [allowed |-> FALSE, message |-> r.message,
                                identifier |-> r.identifier, now |-> rateClock + dt,
                                geo |-> NoGeo]
    /\ UNCHANGED <<partVars, schedVars, histVars, guardVars, qosVars, ctlVars, blocked_users,
                   allowed_geos, allowedLog, minuteDenial, sloVars, proxyVars, isoVars, resetVars,
                   allocConcVars, qosConcVars>>

\* "Record request": the three appends, and return True, "Allowed"
RateRecordRequest(t) ==
    /\ rateThreads[t].pc = "passed"
    /\ \E identifier \in {rateThreads[t].identifier}, now \in {rateThreads[t].now} :
         /\ request_counts' = [request_counts EXCEPT ![identifier] =
                                  [w \in Windows |-> Append(request_counts[identifier][w], now)]]
         /\ allowedLog' = Put(allowedLog, identifier,
                              Append(IF identifier \in DOMAIN allowedLog
                                     THEN allowedLog[identifier] ELSE << >>, now))
         /\ lastRate' = [allowed |-> TRUE, message |-> "Allowed", identifier |-> identifier,
                         now |-> now, geo |-> NoGeo]
    /\ rateThreads' = [rateThreads EXCEPT ![t].pc = "outside"]
    /\ UNCHANGED <<partVars, schedVars, histVars, guardVars, qosVars, ctlVars, blocked_users,
                   allowed_geos, rateClock, rateCalls, minuteDenial, sloVars, proxyVars,
                   isoVars, resetVars, allocConcVars, qosConcVars>>

\* RateLimiter.block_user
BlockUser ==
    /\ rateCalls < MaxRateCalls
    /\ \E identifier \in UserIds \cup (ApiKeys \ {""}) :
         /\ identifier \notin blocked_users
         /\ blocked_users' = blocked_users \cup {identifier}
    /\ rateCalls' = rateCalls + 1
    /\ UNCHANGED <<restVars, partVars, schedVars, histVars, guardVars, qosVars, ctlVars, request_counts,
                   rateClock, allowedLog, lastRate, allowed_geos, minuteDenial>>

\* RateLimiter.unblock_user
UnblockUser ==
    /\ rateCalls < MaxRateCalls
    /\ \E identifier \in blocked_users :
         blocked_users' = blocked_users \ {identifier}
    /\ rateCalls' = rateCalls + 1
    /\ UNCHANGED <<restVars, partVars, schedVars, histVars, guardVars, qosVars, ctlVars, request_counts,
                   rateClock, allowedLog, lastRate, allowed_geos, minuteDenial>>

(***************************************************************************)
(* Actions: the cluster (InferenceServices created, modified and deleted,  *)
(* each producing a watch event) and the controller's watch loop, which    *)
(* takes the events in order.  All events are of the watched namespace.    *)
(***************************************************************************)
MaxEvents == 4

Workloads == {"svc-a", "svc-b"}
GpuConfigs == {GpuSharing(FALSE, FALSE, NoPartition), GpuSharing(TRUE, FALSE, NoPartition),
               GpuSharing(TRUE, TRUE, NoPartition), GpuSharing(TRUE, TRUE, 0)}

Event(type, name, gpu_config) == [type |-> type, name |-> name, gpuSharing |-> gpu_config]
NoEvent == [type |-> "none", name |-> "", gpuSharing |-> GpuSharing(FALSE, FALSE, NoPartition),
            outcome |-> "", raised |-> FALSE]
Processed(event, outcome, raised) ==
    [type |-> event.type, name |-> event.name, gpuSharing |-> event.gpuSharing,
     outcome |-> outcome, raised |-> raised]

CreateWorkload ==
    /\ nevents < MaxEvents
    /\ \E name \in Workloads \ DOMAIN resources, gpu_config \in GpuConfigs :
         /\ resources' = Put(resources, name, gpu_config)
         /\ stream' = Append(stream, Event("ADDED", name, gpu_config))
    /\ nevents' = nevents + 1
    /\ UNCHANGED <<restVars, partVars, schedVars, histVars, guardVars, qosVars, rateVars,
                   svcStatus, lastEvent>>

ModifyWorkload ==
    /\ nevents < MaxEvents
    /\ \E name \in DOMAIN resources, gpu_config \in GpuConfigs :
         /\ resources' = Put(resources, name, gpu_config)
         /\ stream' = Append(stream, Event("MODIFIED", name, gpu_config))
    /\ nevents' = nevents + 1
    /\ UNCHANGED <<restVars, partVars, schedVars, histVars, guardVars, qosVars, rateVars,
                   svcStatus, lastEvent>>

DeleteWorkload ==
    /\ nevents < MaxEvents
    /\ \E name \in DOMAIN resources :
         /\ resources' = Del(resources, name)
         /\ svcStatus' = Del(svcStatus, name)
         /\ stream' = Append(stream, Event("DELETED", name, resources[name]))
    /\ nevents' = nevents + 1
    /\ UNCHANGED <<restVars, partVars, schedVars, histVars, guardVars, qosVars, rateVars, lastEvent>>

\* run(): an ADDED or MODIFIED event
Reconcile ==
    /\ stream # << >>
    /\ Head(stream).type \in {"ADDED", "MODIFIED"}
    /\ \E r \in {reconcile(kind, initialized, compute_mode, memory_mode, partitions,
                           models, partition_assignments, resources, svcStatus,
                           Head(stream).name, Head(stream).gpuSharing)} :
         /\ partitions' = r.partitions
         /\ models' = r.models
         /\ partition_assignments' = r.partition_assignments
         /\ svcStatus' = r.status
         /\ lastEvent' = Processed(Head(stream), r.outcome, FALSE)
    /\ stream' = Tail(stream)
    /\ UNCHANGED <<restVars, kind, initialized, compute_mode, memory_mode, amd_smi_available,
                   devCompute, devMemory, setCommands, histVars, guardVars, qosVars,
                   rateVars, resources, nevents>>

\* run(): a DELETED event
HandleDelete ==
    /\ stream # << >>
    /\ Head(stream).type = "DELETED"
    /\ \E r \in {handle_delete(kind, partitions, models, partition_assignments,
                               Head(stream).name)} :
         /\ partitions' = r.partitions
         /\ models' = r.models
         /\ partition_assignments' = r.partition_assignments
         /\ lastEvent' = Processed(Head(stream), "deleted", r.raised)
    /\ stream' = Tail(stream)
    /\ UNCHANGED <<restVars, kind, initialized, compute_mode, memory_mode, amd_smi_available,
                   devCompute, devMemory, setCommands, histVars, guardVars, qosVars,
                   rateVars, resources, svcStatus, nevents>>

(***************************************************************************)
(* Initial states and specifications.                                      *)
(***************************************************************************)
DeviceModes == {<<"SPX", "NPS1">>, <<"CPX", "NPS1">>, <<"CPX", "NPS4">>}

SchedulerFresh ==
    /\ models = EmptyMap
    /\ partition_assignments = EmptyMap

HistoryFresh ==
    /\ lastCall = NoCall
    /\ beforeSchedule = << >>
    /\ nops = 0
    /\ lastInit = NoInit

\* The policy lists the service is constructed with: the default one, one
\* that redacts first and only warns about toxicity, and one with a
\* disabled policy and types that have no checker.
PolicyLists ==
    { default_policies,
      << GuardrailPolicy("pii", TRUE, "redact", 30),
         GuardrailPolicy("toxicity", TRUE, "allow_with_warning", 70),
         GuardrailPolicy("prompt_injection", TRUE, "block", 75) >>,
      << GuardrailPolicy("all_in_one", TRUE, "block", 70),
         GuardrailPolicy("pii", TRUE, "block", 80),
         GuardrailPolicy("prompt_injection", FALSE, "block", 75),
         GuardrailPolicy("toxicity", TRUE, "redact", 70),
         GuardrailPolicy("secrets", TRUE, "block", 50) >> }

\* GuardrailService.__init__
GuardrailServiceConstructed ==
    /\ policies \in PolicyLists
    /\ metrics_enabled \in BOOLEAN
    /\ latency_budget_exceeded = 0
    /\ lastCheck = NoCheck
    /\ unavailable_models = {}

\* GuardrailService.__init__ with the default policies and without metrics,
\* on a host where any of the learned models may fail to load
GuardrailServiceDegraded ==
    /\ policies = default_policies
    /\ metrics_enabled = FALSE
    /\ latency_budget_exceeded = 0
    /\ lastCheck = NoCheck
    /\ unavailable_models \in SUBSET {"toxicity", "prompt_injection"}

\* No guardrail service in the picture
GuardrailServiceIdle ==
    /\ policies = << >>
    /\ metrics_enabled = FALSE
    /\ latency_budget_exceeded = 0
    /\ lastCheck = NoCheck
    /\ unavailable_models = {}

\* QoSManager.__init__
QoSManagerConstructed ==
    /\ queues = EmptyQueues
    /\ resource_limits = {}
    /\ clock = 0
    /\ submitted = 0
    /\ lastQos = [op |-> "none", ok |-> FALSE, ret |-> NoRequest]

\* QoSManager.__init__: no SLO, no tallies
SloTrackingFresh ==
    /\ slos = EmptyMap
    /\ request_stats = EmptyMap
    /\ lastSlo = NoSloCheck
    /\ sloOps = 0

\* InferenceProxy.__init__: no call under way
ProxyConstructed ==
    /\ proxy = ProxyIdle
    /\ proxyCalls = 0

\* The parts of the system no specification before them is about
\* No thread is inside allocate_model
NoAllocation ==
    /\ allocThreads = [t \in ThreadIds |-> ThreadOutside]
    /\ allocCalls = 0

\* No thread is inside check_rate_limit
NoRateCheck == rateThreads = [t \in ThreadIds |-> RateOutside]

\* No thread is inside the QoS manager, and nothing has gone through it
NoQosCall ==
    /\ qosThreads = [t \in ThreadIds |-> QosOutside]
    /\ acceptedLog = {}
    /\ returnedLog = EmptyMap
    /\ expiredLog = EmptyMap

\* ResourceIsolator.__init__; total_compute_units is first set by initialize
IsolatorConstructed ==
    /\ compute_limits = EmptyMap
    /\ total_compute_units = 0
    /\ isolatorInitialized = FALSE
    /\ lastIsolatorCall = NoIsolatorCall
    /\ isolatorCalls = 0

RestIdle ==
    /\ SloTrackingFresh /\ ProxyConstructed /\ lastReset = NoReset
    /\ NoAllocation /\ NoRateCheck /\ NoQosCall /\ IsolatorConstructed

\* A partitioner as constructed: no partitions, no recorded modes.
PartitionerFresh ==
    /\ kind \in {"sim", "real"}
    /\ initialized = FALSE
    /\ partitions = << >>
    /\ compute_mode = NoneMode
    /\ memory_mode = NoneMode
    /\ setCommands = 0
    /\ IF kind = "real"
       THEN /\ amd_smi_available \in BOOLEAN
            /\ \E d \in DeviceModes : devCompute = d[1] /\ devMemory = d[2]
       ELSE /\ amd_smi_available = FALSE
            /\ devCompute = "SPX" /\ devMemory = "NPS1"

\* A partitioner after a successful initialize: the simulation one with one
\* of the accepted layouts, the real one with an accepted mode pair that the
\* device took.
PartitionerInitialized ==
    /\ kind \in {"sim", "real"}
    /\ initialized = TRUE
    /\ setCommands = 0
    /\ IF kind = "sim"
       THEN /\ \E sizes \in SimLayouts :
                 /\ SimInitializeResult(FALSE, << >>, "MI300X", sizes).ok
                 /\ partitions = SimInitializeResult(FALSE, << >>, "MI300X", sizes).partitions
            /\ compute_mode = NoneMode /\ memory_mode = NoneMode
            /\ amd_smi_available = FALSE
            /\ devCompute = "SPX" /\ devMemory = "NPS1"
       ELSE /\ \E d \in {<<"SPX", "NPS1">>, <<"CPX", "NPS4">>} :
                 /\ compute_mode = d[1] /\ memory_mode = d[2]
                 /\ devCompute = d[1] /\ devMemory = d[2]
                 /\ partitions = RealPartitions(get_gpu_spec("MI300X"), d[1], d[2])
            /\ amd_smi_available = TRUE

(***************************************************************************)
(* Properties of the partitioner and the scheduler.                        *)
(***************************************************************************)
\* How often model_id is listed over all partitions
RECURSIVE Residency(_, _, _)
Residency(parts, S, model_id) ==
    IF S = {} THEN 0
    ELSE LET p == CHOOSE q \in S : TRUE
         IN  Count(model_id, parts[p].models) + Residency(parts, S \ {p}, model_id)

\* Some active partition has room for size GB
SomePartitionFits(parts, size) ==
    \E p \in DOMAIN parts : parts[p].is_active /\ FreeBytes(parts, p) >= size

\* C1: after any sequence of initialize, allocate_model and deallocate_model
\* every partition has 0 <= allocated_bytes <= size_bytes.
C1_AllocatedWithinSize ==
    \A p \in DOMAIN partitions :
        /\ 0 <= partitions[p].allocated_bytes
        /\ partitions[p].allocated_bytes <= partitions[p].size_bytes

\* C2: after any sequence of schedule_model, unschedule_model and
\* update_model_status over an initialized partitioner, validate_schedule
\* reports no errors.
C2_ValidateScheduleClean ==
    validate_schedule(kind, initialized, partitions, models) = {}

\* C2's case: a model that was stopped and scheduled again now lives in
\* one partition while another partition still lists it.
C2_Witness ==
    /\ lastCall.op = "schedule_model" /\ lastCall.ok /\ lastCall.was_present
    /\ \E p \in DOMAIN partitions :
          /\ p # models[lastCall.model_id].partition_id
          /\ InSeq(lastCall.model_id, partitions[p].models)

\* C3: a model id in the instance map is listed exactly once over all
\* partitions, in its instance's partition; any other id is listed nowhere.
C3_ResidentExactlyOnce ==
    \A m \in ModelIds :
        IF m \in DOMAIN models
        THEN /\ Residency(partitions, DOMAIN partitions, m) = 1
             /\ HasPartition(partitions, models[m].partition_id)
             /\ InSeq(m, partitions[models[m].partition_id].models)
        ELSE Residency(partitions, DOMAIN partitions, m) = 0

\* C4: when schedule_model of a model not yet scheduled succeeded and
\* unschedule_model of that model follows, the latter succeeds and every
\* partition's allocated_bytes, resident list and utilization are what they
\* were before the schedule_model.
C4_ScheduleUnscheduleRoundTrip ==
    [][(/\ lastCall.op = "schedule_model" /\ lastCall.ok /\ ~lastCall.was_present
        /\ lastCall'.op = "unschedule_model"
        /\ lastCall'.model_id = lastCall.model_id)
       => (/\ lastCall'.ok
           /\ partitions' = beforeSchedule
           /\ get_partition_utilization(partitions')
                = get_partition_utilization(beforeSchedule))]_vars

\* C5: schedule_model on a model id already in the instance map, whatever
\* its status, returns success with the existing partition id and changes
\* neither the partitions nor the instance map.
C5_RescheduleIsNoOp ==
    [][(lastCall'.op = "schedule_model" /\ lastCall'.was_present)
       => (/\ lastCall'.ok
           /\ lastCall'.ret_partition = models[lastCall'.model_id].partition_id
           /\ partitions' = partitions
           /\ models' = models
           /\ partition_assignments' = partition_assignments)]_vars

\* C6: schedule_model for a model id not in the instance map succeeds
\* whenever some active partition has size_bytes - allocated_bytes of at
\* least estimate_model_size(model, precision), and so fails only if none has.
C6_SucceedsWheneverSomePartitionFits ==
    [][(/\ lastCall'.op = "schedule_model" /\ ~lastCall'.was_present
        /\ SomePartitionFits(partitions,
               estimate_model_size(lastCall'.model_id, lastCall'.precision)))
       => lastCall'.ok]_vars

\* No controller in the picture, or one that has just started its watch
ControllerIdle ==
    /\ resources = EmptyMap
    /\ stream = << >>
    /\ svcStatus = EmptyMap
    /\ lastEvent = NoEvent
    /\ nevents = 0

\* RateLimiter.__init__
RateLimiterConstructed ==
    /\ request_counts = EmptyMap
    /\ blocked_users = {}
    /\ rateClock = 0
    /\ allowedLog = EmptyMap
    /\ rateCalls = 0
    /\ lastRate = [allowed |-> FALSE, message |-> "", identifier |-> "", now |-> 0,
                   geo |-> NoGeo]
    /\ allowed_geos = {}
    /\ minuteDenial = EmptyMap

\* RateLimiter.__init__ with a config that has an allow-list of geos
RateLimiterWithGeos ==
    /\ request_counts = EmptyMap
    /\ blocked_users = {}
    /\ rateClock = 0
    /\ allowedLog = EmptyMap
    /\ rateCalls = 0
    /\ lastRate = [allowed |-> FALSE, message |-> "", identifier |-> "", now |-> 0,
                   geo |-> NoGeo]
    /\ allowed_geos = {"US"}
    /\ minuteDenial = EmptyMap

\* A simulation partitioner as constructed, left alone
PartitionerIdle ==
    /\ PartitionerFresh
    /\ kind = "sim"

InitPart ==
    /\ PartitionerFresh /\ SchedulerFresh /\ HistoryFresh
    /\ GuardrailServiceIdle /\ QoSManagerConstructed /\ RateLimiterConstructed /\ ControllerIdle /\ RestIdle
NextPart == SimInitialize \/ RealInitialize \/ AllocateModel \/ DeallocateModel
SpecPart == InitPart /\ [][NextPart]_vars

InitSched ==
    /\ PartitionerInitialized /\ SchedulerFresh /\ HistoryFresh
    /\ GuardrailServiceIdle /\ QoSManagerConstructed /\ RateLimiterConstructed /\ ControllerIdle /\ RestIdle
NextSched == ScheduleModel \/ UnscheduleModel \/ UpdateModelStatus
SpecSched == InitSched /\ [][NextSched]_vars

InitGuard ==
    /\ PartitionerIdle /\ SchedulerFresh /\ HistoryFresh
    /\ GuardrailServiceConstructed /\ QoSManagerConstructed /\ RateLimiterConstructed /\ ControllerIdle /\ RestIdle
NextGuard == CheckRequest \/ CheckResponse
SpecGuard == InitGuard /\ [][NextGuard]_vars

InitQoS ==
    /\ PartitionerIdle /\ SchedulerFresh /\ HistoryFresh
    /\ GuardrailServiceIdle /\ QoSManagerConstructed /\ RateLimiterConstructed /\ ControllerIdle /\ RestIdle
NextQoS == SubmitRequest \/ GetNextRequest \/ SetResourceLimit \/ Tick
SpecQoS == InitQoS /\ [][NextQoS]_vars

(***************************************************************************)
(* Properties of the guardrail service.                                    *)
(***************************************************************************)
\* Sum of the durations of the first n invocations
RECURSIVE AccumulatedLatency(_, _)
AccumulatedLatency(invoked, n) ==
    IF n = 0 THEN 0 ELSE invoked[n].duration + AccumulatedLatency(invoked, n - 1)

\* C7: the allowed flag that check_request or check_response returns is
\* false if and only if some result of a policy whose action is block has
\* passed = false.
C7_DeniedIffBlockPolicyFailed ==
    lastCheck.op # "none" =>
        (~lastCheck.ret.allowed
            <=> \E i \in DOMAIN lastCheck.ret.results :
                    /\ lastCheck.ret.results[i].action = "block"
                    /\ ~lastCheck.ret.results[i].passed)

\* C7's case: a check whose results hold a failed policy that is not block
\* before a failed block policy, and the check denied.
C7_Witness ==
    /\ lastCheck.op # "none"
    /\ ~lastCheck.ret.allowed
    /\ \E i, j \in DOMAIN lastCheck.ret.results :
          /\ i < j
          /\ lastCheck.ret.results[i].action # "block" /\ ~lastCheck.ret.results[i].passed
          /\ lastCheck.ret.results[j].action = "block" /\ ~lastCheck.ret.results[j].passed

\* C8: when an invoked classifier returned redacted content, every
\* classifier invoked after it received content without the entities it
\* detected, and so does the content the check ends with.
C8_RedactionClosure ==
    \A i \in DOMAIN lastCheck.invoked :
        lastCheck.invoked[i].has_redacted =>
            /\ \A j \in DOMAIN lastCheck.invoked :
                   j > i => lastCheck.invoked[j].seen \cap lastCheck.invoked[i].detected = {}
            /\ lastCheck.final_content \cap lastCheck.invoked[i].detected = {}

\* C9: in a check_request with a use case no classifier is invoked once the
\* accumulated latency exceeds the use case's budget, and a check whose
\* accumulated latency exceeded it incremented the budget-exceeded counter
\* and returned a verdict marked budgetExceeded.
C9_StopsWhenBudgetExceeded ==
    (lastCheck.op = "check_request" /\ lastCheck.use_case \in UseCase) =>
        /\ \A i \in DOMAIN lastCheck.invoked :
               AccumulatedLatency(lastCheck.invoked, i - 1)
                   <= get_guardrail_budget_ms(lastCheck.use_case)
        /\ AccumulatedLatency(lastCheck.invoked, Len(lastCheck.invoked))
               > get_guardrail_budget_ms(lastCheck.use_case)
           => /\ lastCheck.exceeded >= 1
              /\ "budgetExceeded" \in DOMAIN lastCheck.ret
              /\ lastCheck.ret["budgetExceeded"]

(***************************************************************************)
(* Properties of the QoS manager.                                          *)
(***************************************************************************)
\* No queued request has a timeout
NoTimeouts(qs) ==
    \A level \in QoSLevel : \A i \in DOMAIN qs[level] : qs[level][i].timeout = NoTimeout

\* The requests queued in the highest non-empty band
HighestBand(qs) ==
    LET Band(level) == {qs[level][i] : i \in DOMAIN qs[level]}
    IN  IF qs["high"] # << >> THEN Band("high")
        ELSE IF qs["medium"] # << >> THEN Band("medium")
        ELSE Band("low")

\* The request get_next_request is to return: the earliest submitted one
\* (request ids are handed out in submission order) of the highest
\* non-empty band, and none only when all bands are empty.
EarliestOfHighestBand(qs) ==
    IF HighestBand(qs) = {} THEN NoRequest
    ELSE CHOOSE r \in HighestBand(qs) :
            \A o \in HighestBand(qs) : r.request_id <= o.request_id

\* C10: with no request timeouts, get_next_request returns the earliest
\* submitted request of the highest non-empty priority band and leaves the
\* rest queued, and returns nothing only when all three queues are empty.
C10_PriorityThenFifo ==
    [][(GetNextRequest /\ NoTimeouts(queues))
       => /\ lastQos'.ret = EarliestOfHighestBand(queues)
          /\ (lastQos'.ret = NoRequest <=> queue_size(queues) = 0)
          /\ queue_size(queues') = queue_size(queues)
                                     - (IF lastQos'.ret = NoRequest THEN 0 ELSE 1)]_vars

\* C10's case: a request without a timeout was returned while a request
\* submitted before it waits in a lower band and one submitted after it
\* waits in its own band.
C10_Witness ==
    /\ lastQos.op = "get_next_request" /\ lastQos.ret # NoRequest
    /\ NoTimeouts(queues) /\ lastQos.ret.timeout = NoTimeout
    /\ queues[lastQos.ret.priority] # << >>
    /\ \E level \in QoSLevel \ {lastQos.ret.priority} :
          \E i \in DOMAIN queues[level] :
              queues[level][i].request_id < lastQos.ret.request_id

(***************************************************************************)
(* The rate limiter: specification and properties.                         *)
(***************************************************************************)
InitRate ==
    /\ PartitionerIdle /\ SchedulerFresh /\ HistoryFresh
    /\ GuardrailServiceIdle /\ QoSManagerConstructed /\ RateLimiterConstructed /\ ControllerIdle /\ RestIdle
NextRate == CheckRateLimit \/ BlockUser \/ UnblockUser
SpecRate == InitRate /\ [][NextRate]_vars

\* The number of allowed calls of the log with a timestamp in [from, from + length)
AllowedWithin(log, from, length) ==
    Cardinality({i \in DOMAIN log : from <= log[i] /\ log[i] < from + length})

\* The number of allowed calls of the log with a timestamp in [from, from + length]
AllowedWithinClosed(log, from, length) ==
    Cardinality({i \in DOMAIN log : from <= log[i] /\ log[i] <= from + length})

InitCtl ==
    /\ PartitionerInitialized /\ kind = "real"
    /\ SchedulerFresh /\ HistoryFresh
    /\ GuardrailServiceIdle /\ QoSManagerConstructed /\ RateLimiterConstructed
    /\ ControllerIdle /\ RestIdle
NextCtl == CreateWorkload \/ ModifyWorkload \/ DeleteWorkload \/ Reconcile \/ HandleDelete
SpecCtl == InitCtl /\ [][NextCtl]_vars

\* The watch loop takes the next event of the stream whenever there is one
SpecCtlFair == SpecCtl /\ WF_vars(Reconcile) /\ WF_vars(HandleDelete)

\* Some partition has room for the workload: for its memoryLimitGB and for
\* the size the scheduler estimates for its name
RoomFor(parts, name, gpu_config) ==
    /\ SomePartitionFits(parts, gpu_config.memoryLimitGB)
    /\ SomePartitionFits(parts, estimate_model_size(name, "fp16"))

\* C12: reconcile of an ADDED or MODIFIED event of an existing workload with
\* gpuSharing.enabled true, while some partition has enough free memory for
\* it, leaves the workload in the scheduler's instance map and its status
\* with PartitionAllocated True and the info of the partition it is on.
C12_ReconcileSchedules ==
    [][(/\ Reconcile
        /\ should_manage(Head(stream).gpuSharing)
        /\ Head(stream).name \in DOMAIN resources
        /\ RoomFor(partitions, Head(stream).name, Head(stream).gpuSharing))
       => (/\ Head(stream).name \in DOMAIN models'
           /\ Head(stream).name \in DOMAIN svcStatus'
           /\ svcStatus'[Head(stream).name].status = "True"
           /\ svcStatus'[Head(stream).name].partitionInfo.partitionId
                = models'[Head(stream).name].partition_id)]_vars

\* C13: a managed workload whose reconcile failed, while some partition has
\* room for it, is eventually scheduled (or deleted, or no longer managed),
\* whether or not another event for it arrives.
C13_FailedIsRetried ==
    \A name \in Workloads :
        (/\ name \in DOMAIN svcStatus
         /\ svcStatus[name].status = "False"
         /\ name \in DOMAIN resources
         /\ should_manage(resources[name])
         /\ RoomFor(partitions, name, resources[name]))
        ~> (\/ name \in DOMAIN models
            \/ name \notin DOMAIN resources
            \/ ~should_manage(resources[name]))

C15_SecondInitializeIsNoOp ==
    [][(/\ SimInitialize \/ RealInitialize
        /\ initialized
        /\ lastInit.ok
        /\ lastInit'.gpu_name = lastInit.gpu_name
        /\ lastInit'.args = lastInit.args)
       => (/\ lastInit'.ok
           /\ partitions' = partitions
           /\ setCommands' = setCommands)]_vars

\* C16: an initialize during which a set-mode command fails while the
\* device is in another mode than the requested one returns failure and
\* establishes no partitions.
C16_SetFailureFailsInitialize ==
    [][(/\ RealInitialize
        /\ lastInit'.set_failed_off_mode)
       => (/\ ~lastInit'.ok
           /\ partitions' = << >>)]_vars

\* C17: after a successful initialize of the real partitioner the partition
\* ids are 0..n-1, n is 8 exactly when the recorded compute mode is CPX and
\* 1 when it is SPX, and every capacity is total_memory / n; initialize with
\* SPX and NPS4 fails.
C17_RealLayoutFollowsRecordedMode ==
    [][RealInitialize
       => (/\ lastInit'.ok
                => LET n == Cardinality(DOMAIN partitions')
                   IN  /\ DOMAIN partitions' = 0..(n - 1)
                       /\ (n = NumXCD) <=> (compute_mode' = "CPX")
                       /\ (compute_mode' = "SPX") => (n = 1)
                       /\ \A p \in DOMAIN partitions' :
                              partitions'[p].size_bytes
                                = get_gpu_spec(lastInit'.gpu_name) \div n
           /\ lastInit'.args = <<"SPX", "NPS4">> => ~lastInit'.ok)]_vars

\* C18: after a successful initialize of either partitioner the partition
\* capacities sum to at most the device's total memory minus the system
\* overhead; an initialize that asks for more fails and creates no
\* partitions.
C18_CapacityWithinBudget ==
    [][(SimInitialize \/ RealInitialize)
       => (/\ lastInit'.ok
                => TotalSize(partitions', DOMAIN partitions')
                     <= get_gpu_spec(lastInit'.gpu_name) - system_overhead_gb
           /\ (/\ kind = "sim"
               /\ SumSeq(lastInit'.args)
                    > get_gpu_spec(lastInit'.gpu_name) - system_overhead_gb)
                => (~lastInit'.ok /\ partitions' = partitions))]_vars

(***************************************************************************)
(* The scheduler's bookkeeping of sizes.                                   *)
(***************************************************************************)
\* The sizes, at the precision they were scheduled with, of the models in S
\* that the scheduler has on partition p
RECURSIVE ScheduledSize(_, _, _)
ScheduledSize(mods, S, p) ==
    IF S = {} THEN 0
    ELSE LET m == CHOOSE x \in S : TRUE
         IN  (IF mods[m].partition_id = p THEN mods[m].memory_allocated_gb ELSE 0)
               + ScheduledSize(mods, S \ {m}, p)

\* C19: every partition's allocated_bytes is at least the sum of the sizes
\* of the models scheduled on it, each at the precision it was scheduled with.
C19_AllocatedCoversScheduled ==
    \A p \in DOMAIN partitions :
        partitions[p].allocated_bytes >= ScheduledSize(models, DOMAIN models, p)

(***************************************************************************)
(* The latency budgets and the model selection.                            *)
(***************************************************************************)
\* C20: for the use case a request was checked with, the latency estimates
\* of the models get_optimized_models selects for it sum to at most that
\* use case's guardrail budget.
C20_SelectionWithinBudget ==
    (lastCheck.op = "check_request" /\ lastCheck.use_case \in UseCase)
        => estimate_total_latency(lastCheck.use_case,
                                  get_optimized_model_names(lastCheck.use_case))
             <= get_guardrail_budget_ms(lastCheck.use_case)

(***************************************************************************)
(* The QoS manager under load.                                             *)
(***************************************************************************)
\* A QoSManager after a burst: QueueSizeLimit + 1 low-priority requests
\* without timeout were submitted at time 0, while no resource limit was set,
\* and none has been taken yet.  Each of them was accepted, the queue being
\* at most QueueSizeLimit long when it came.
QoSManagerAfterBurst ==
    /\ queues = [EmptyQueues EXCEPT !["low"] =
                    [i \in 1..(QueueSizeLimit + 1) |->
                        Request(i - (QueueSizeLimit + 1), Llama8B, "low", 0, NoTimeout)]]
    /\ resource_limits = {}
    /\ clock = 0
    /\ submitted = 0
    /\ lastQos = [op |-> "none", ok |-> FALSE, ret |-> NoRequest]

InitQoSBurst ==
    /\ PartitionerIdle /\ SchedulerFresh /\ HistoryFresh
    /\ GuardrailServiceIdle /\ QoSManagerAfterBurst /\ RateLimiterConstructed
    /\ ControllerIdle /\ RestIdle

\* Under load the model follows the queue only while it is within
\* MaxDrain requests of the cap
MaxDrain == 2
GetNextRequestNearCap ==
    /\ queue_size(queues) > QueueSizeLimit - MaxDrain
    /\ GetNextRequest
NextQoSBurst == SubmitRequest \/ GetNextRequestNearCap \/ SetResourceLimit \/ Tick
SpecQoSBurst == InitQoSBurst /\ [][NextQoSBurst]_vars

\* C21: a request submitted while more than QueueSizeLimit requests are
\* queued is rejected and not enqueued, whether or not a resource limit is
\* set for its model.
C21_RejectedAboveCap ==
    [][(SubmitRequest /\ queue_size(queues) > QueueSizeLimit)
       => (~lastQos'.ok /\ queues' = queues)]_vars


\* C22: right after get_next_request returns, no request whose timeout has
\* elapsed is left in any priority queue, at whatever position.
C22_NoExpiredLeft ==
    [][GetNextRequest
       => \A level \in QoSLevel : \A i \in DOMAIN queues'[level] :
              ~Expired(queues'[level][i], clock)]_vars

(***************************************************************************)
(* The rate limiter with an allow-list of geos.                            *)
(***************************************************************************)
InitRateGeo ==
    /\ PartitionerIdle /\ SchedulerFresh /\ HistoryFresh
    /\ GuardrailServiceIdle /\ QoSManagerConstructed /\ RateLimiterWithGeos
    /\ ControllerIdle /\ RestIdle
SpecRateGeo == InitRateGeo /\ [][NextRate]_vars

\* C23: with an allow-list of geos configured, every check_rate_limit call
\* whose geo is not in the list, a call without geo included, is denied.
C23_GeoOutsideListDenied ==
    [][(CheckRateLimit /\ allowed_geos # {} /\ lastRate'.geo \notin allowed_geos)
       => ~lastRate'.allowed]_vars

RECURSIVE FlaggedPolicies(_, _)
FlaggedPolicies(pols, flagged) ==
    IF pols = << >> THEN << >>
    ELSE IF Head(pols).enabled /\ Head(pols).guardrail_type \in flagged
         THEN << <<Head(pols).guardrail_type, Head(pols).action>> >>
                  \o FlaggedPolicies(Tail(pols), flagged)
         ELSE FlaggedPolicies(Tail(pols), flagged)

\* C25: the results of a check_request without use case, and of a
\* check_response, hold exactly one entry for every enabled policy whose
\* pre-filter (respectively post-filter) flag is set, in policy-list order,
\* with that policy's type and action; enabled policies of type secrets are
\* among them in both directions.
C25_OneResultPerFlaggedPolicy ==
    /\ (lastCheck.op = "check_request" /\ lastCheck.use_case = "")
          => [i \in DOMAIN lastCheck.ret.results |->
                 <<lastCheck.ret.results[i].guardrail_type, lastCheck.ret.results[i].action>>]
               = FlaggedPolicies(policies, PreFilterTypes)
    /\ lastCheck.op = "check_response"
          => [i \in DOMAIN lastCheck.ret.results |->
                 <<lastCheck.ret.results[i].guardrail_type, lastCheck.ret.results[i].action>>]
               = FlaggedPolicies(policies, PostFilterTypes)

(***************************************************************************)
(* The guardrail service: classifiers that fail open.                      *)
(***************************************************************************)
InitGuardDegraded ==
    /\ PartitionerIdle /\ SchedulerFresh /\ HistoryFresh
    /\ GuardrailServiceDegraded /\ QoSManagerConstructed /\ RateLimiterConstructed /\ ControllerIdle /\ RestIdle
SpecGuardDegraded == InitGuardDegraded /\ [][NextGuard]_vars

\* The types of the policies a check reaches a classifier for, in list
\* order: enabled, flagged for the direction, selected for the use case and
\* with a checker in self.guardrails
RECURSIVE ReachedTypes(_, _, _)
ReachedTypes(pols, flagged, use_case) ==
    IF pols = << >> THEN << >>
    ELSE IF /\ Head(pols).enabled
            /\ Head(pols).guardrail_type \in flagged
            /\ HasGuardrail(Head(pols).guardrail_type)
            /\ use_case \in UseCase
                 => Head(pols).guardrail_type \in get_optimized_models(use_case)
         THEN <<Head(pols).guardrail_type>> \o ReachedTypes(Tail(pols), flagged, use_case)
         ELSE ReachedTypes(Tail(pols), flagged, use_case)

C27_PreferredElseLargestFree ==
    [][(/\ nops' = nops + 1
        /\ lastCall'.op = "schedule_model"
        /\ lastCall'.model_id \notin DOMAIN models)
       => LET model_size == estimate_model_size(lastCall'.model_id, lastCall'.precision)
              fitting == {p \in DOMAIN partitions : model_size <= FreeBytes(partitions, p)}
          IN  IF /\ lastCall'.preferred # NoPartition
                 /\ HasPartition(partitions, lastCall'.preferred)
                 /\ model_size <= FreeBytes(partitions, lastCall'.preferred)
              THEN lastCall'.ok /\ lastCall'.ret_partition = lastCall'.preferred
              ELSE fitting # {}
                     => /\ lastCall'.ok
                        /\ lastCall'.ret_partition = LargestFirst(partitions, fitting)]_vars

\* The scheduler and an application that also calls the partitioner it
\* handed to the scheduler
NextSchedShared == ScheduleModel \/ UnscheduleModel \/ DeallocateModel
SpecSchedShared == InitSched /\ [][NextSchedShared]_vars

\* C28: unschedule_model of a model in the instance map leaves it absent
\* from the map and from every partition's resident list, also when the
\* partitioner no longer has it resident on the recorded partition; for a
\* model that is not in the map it returns failure and changes nothing.
C28_UnscheduleAlwaysForgets ==
    [][(nops' = nops + 1 /\ lastCall'.op = "unschedule_model")
       => IF lastCall'.model_id \in DOMAIN models
          THEN /\ lastCall'.model_id \notin DOMAIN models'
               /\ \A p \in DOMAIN partitions' :
                      ~InSeq(lastCall'.model_id, partitions'[p].models)
          ELSE /\ ~lastCall'.ok
               /\ UNCHANGED <<partitions, models, partition_assignments>>]_vars

(***************************************************************************)
(* The partitioner: calls that fail.                                       *)
(***************************************************************************)
\* A partitioner before or after its initialize, called directly
InitAlloc ==
    /\ (PartitionerIdle \/ PartitionerInitialized) /\ SchedulerFresh /\ HistoryFresh
    /\ GuardrailServiceIdle /\ QoSManagerConstructed /\ RateLimiterConstructed /\ ControllerIdle /\ RestIdle
NextAlloc == SimInitialize \/ AllocateModel \/ DeallocateModel
SpecAlloc == InitAlloc /\ [][NextAlloc]_vars

\* C29: allocate_model fails on an uninitialized partitioner, on a partition
\* id that does not exist and for a model larger than the partition's free
\* bytes; deallocate_model fails for a model that is not resident on the
\* named partition; and every failed call leaves the partitions, with their
\* allocated_bytes and resident lists, as they were.
C29_FailedCallsChangeNothing ==
    [][(nops' = nops + 1 /\ lastCall'.op \in {"allocate_model", "deallocate_model"})
       => LET m == lastCall'.model_id
              p == lastCall'.preferred
          IN  /\ (/\ lastCall'.op = "allocate_model"
                  /\ \/ ~initialized
                     \/ p \notin DOMAIN partitions
                     \/ estimate_model_size(m, AllocatePrecision(kind, lastCall'.precision))
                            > FreeBytes(partitions, p))
                    => ~lastCall'.ok
              /\ (/\ lastCall'.op = "deallocate_model"
                  /\ \/ p \notin DOMAIN partitions
                     \/ ~InSeq(m, partitions[p].models))
                    => ~lastCall'.ok
              /\ ~lastCall'.ok => partitions' = partitions]_vars

\* C29's case: an allocate_model on an initialized partitioner was refused
\* for lack of room on a partition that already holds a model.
C29_Witness ==
    /\ lastCall.op = "allocate_model" /\ ~lastCall.ok
    /\ initialized
    /\ lastCall.preferred \in DOMAIN partitions
    /\ partitions[lastCall.preferred].models # << >>
    /\ estimate_model_size(lastCall.model_id, AllocatePrecision(kind, lastCall.precision))
           > FreeBytes(partitions, lastCall.preferred)

(***************************************************************************)
(* What a failed scheduling attempt leaves behind.                         *)
(***************************************************************************)
\* The model named by a failed attempt in this step: a schedule_model call
\* that returned failure, or a reconcile that wrote PartitionAllocated=False
FailedAttempt(model_id) ==
    \/ /\ nops' = nops + 1
       /\ lastCall'.op = "schedule_model" /\ ~lastCall'.ok
       /\ lastCall'.model_id = model_id
    \/ /\ stream # << >> /\ stream' = Tail(stream)
       /\ lastEvent'.outcome = "failed"
       /\ lastEvent'.name = model_id

\* C30: after a schedule_model that returned failure, and after a reconcile
\* that wrote PartitionAllocated=False for a workload, the model is not in
\* the scheduler's instance map and every partition has the allocated_bytes
\* and the resident list it had before the attempt.
C30_FailureLeavesNoTrace ==
    [][\A model_id \in ModelIds \cup Workloads :
          FailedAttempt(model_id)
              => /\ model_id \notin DOMAIN models'
                 /\ partitions' = partitions]_vars

(***************************************************************************)
(* The controller: workloads it does not manage.                           *)
(***************************************************************************)
\* C31: a reconcile of an ADDED or MODIFIED event whose spec has no
\* gpuSharing section, or has gpuSharing.enabled false, calls no scheduler
\* operation and writes no status: partitions, instance map, assignments and
\* statuses are as before.
C31_UnmanagedIsIgnored ==
    [][(/\ stream # << >> /\ stream' = Tail(stream)
        /\ Head(stream).type \in {"ADDED", "MODIFIED"}
        /\ ~Head(stream).gpuSharing.present \/ ~Head(stream).gpuSharing.enabled)
       => /\ lastEvent'.outcome = "skipped"
          /\ UNCHANGED <<partitions, models, partition_assignments, svcStatus>>]_vars

\* C31's case: the event just reconciled carried a gpuSharing section with
\* enabled false, was skipped, and its workload has no status.
C31_Witness ==
    /\ lastEvent.type \in {"ADDED", "MODIFIED"}
    /\ lastEvent.gpuSharing.present /\ ~lastEvent.gpuSharing.enabled
    /\ lastEvent.outcome = "skipped"
    /\ lastEvent.name \in DOMAIN resources
    /\ lastEvent.name \notin DOMAIN svcStatus

(***************************************************************************)
(* The QoS manager: SLO compliance.                                        *)
(***************************************************************************)
InitSlo ==
    /\ PartitionerIdle /\ SchedulerFresh /\ HistoryFresh
    /\ GuardrailServiceIdle /\ QoSManagerConstructed /\ RateLimiterConstructed /\ ControllerIdle
    /\ RestIdle
NextSlo == RegisterSlo \/ RecordRequestCompletion \/ CheckSloCompliance
SpecSlo == InitSlo /\ [][NextSlo]_vars

\* C32: check_slo_compliance returns compliant = true with empty metrics
\* for a model without a registered SLO or without a successfully completed
\* request; otherwise compliant is true exactly when total_latency /
\* completed_requests <= max_latency and total_requests / 60 >=
\* min_throughput.
C32_SloCompliance ==
    [][(lastSlo' # lastSlo)
       => LET m == lastSlo'.model_id
          IN  IF \/ m \notin DOMAIN slos
                 \/ m \notin DOMAIN request_stats
                 \/ request_stats[m].completed_requests = 0
              THEN lastSlo'.compliant /\ lastSlo'.metrics = NoMetrics
              ELSE lastSlo'.compliant
                     <=> /\ request_stats[m].total_latency
                              <= slos[m].max_latency_seconds
                                   * request_stats[m].completed_requests
                         /\ request_stats[m].total_requests
                              >= slos[m].min_throughput_per_second]_vars

\* C32's case: a check found the model compliant although its completed
\* requests alone are fewer than the throughput the SLO asks for: the failed
\* ones count too.
C32_Witness ==
    /\ lastSlo.at > 0 /\ lastSlo.compliant
    /\ lastSlo.metrics # NoMetrics
    /\ lastSlo.metrics.failed_requests > 0
    /\ lastSlo.model_id \in DOMAIN slos
    /\ slos[lastSlo.model_id].min_throughput_per_second > lastSlo.metrics.completed_requests

(***************************************************************************)
(* The inference proxy.                                                    *)
(***************************************************************************)
InitProxy ==
    /\ PartitionerIdle /\ SchedulerFresh /\ HistoryFresh
    /\ GuardrailServiceDegraded /\ QoSManagerConstructed /\ RateLimiterConstructed
    /\ ControllerIdle /\ RestIdle
NextProxy == ProxyCheckRequest \/ ProxyPost \/ ProxyFilterResponse
SpecProxy == InitProxy /\ [][NextProxy]_vars

\* C33: forward_request has called the inference endpoint only if
\* check_request returned allowed for the prompt, and it has returned
\* response data only if check_response was given the text the endpoint
\* generated and returned allowed for it.
C33_FilteredBothWays ==
    /\ proxy.forwarded => proxy.request_allowed
    /\ (proxy.ret.allowed /\ proxy.ret.response_data # NoPayload)
          => /\ proxy.checked = proxy.ret.response_data.text
             /\ proxy.response_allowed

(***************************************************************************)
(* The real partitioner with its reset.                                    *)
(***************************************************************************)
InitReset ==
    /\ kind = "real"
    /\ PartitionerFresh \/ PartitionerInitialized
    /\ SchedulerFresh /\ HistoryFresh
    /\ GuardrailServiceIdle /\ QoSManagerConstructed /\ RateLimiterConstructed
    /\ ControllerIdle /\ RestIdle
NextReset == ResetPartitions \/ AllocateModel \/ DeallocateModel
SpecReset == InitReset /\ [][NextReset]_vars

\* C34: a reset_partitions call returns success only if both reset commands
\* succeeded; after a successful return the partition set is empty and the
\* partitioner is uninitialized, and after a failed one the partition set is
\* what it was.
C34_ResetReportsTheDevice ==
    [][(nops' = nops + 1 /\ lastCall'.op = "reset_partitions")
       => /\ lastCall'.ok => /\ lastReset' = <<"ok", "ok">>
                             /\ partitions' = << >>
                             /\ ~initialized'
          /\ ~lastCall'.ok => partitions' = partitions]_vars

(***************************************************************************)
(* Threads sharing one partitioner.                                        *)
(***************************************************************************)
InitAllocConc ==
    /\ kind = "sim" /\ PartitionerInitialized
    /\ SchedulerFresh /\ HistoryFresh
    /\ GuardrailServiceIdle /\ QoSManagerConstructed /\ RateLimiterConstructed
    /\ ControllerIdle /\ RestIdle
NextAllocConc == \E t \in ThreadIds : AllocateCheck(t) \/ AllocateUpdate(t)
SpecAllocConc == InitAllocConc /\ [][NextAllocConc]_vars

\* C35: under concurrent allocate_model calls no partition ever has
\* allocated_bytes above size_bytes and no model id is listed twice.
C35_ConcurrentAllocationsFit ==
    /\ \A p \in DOMAIN partitions : partitions[p].allocated_bytes <= partitions[p].size_bytes
    /\ \A m \in ModelIds : Residency(partitions, DOMAIN partitions, m) <= 1

\* Its first half alone, which no sequence of whole calls violates
AllocatedWithinSizeUnderRace ==
    \A p \in DOMAIN partitions : partitions[p].allocated_bytes <= partitions[p].size_bytes

(***************************************************************************)
(* Threads sharing one rate limiter.                                       *)
(***************************************************************************)
InitRateConc ==
    /\ PartitionerIdle /\ SchedulerFresh /\ HistoryFresh
    /\ GuardrailServiceIdle /\ QoSManagerConstructed /\ RateLimiterConstructed
    /\ ControllerIdle /\ RestIdle
NextRateConc == \E t \in ThreadIds : RateLimitTests(t) \/ RateRecordRequest(t)
SpecRateConc == InitRateConc /\ [][NextRateConc]_vars

\* C36: under concurrent check_rate_limit calls, for every identity the
\* allowed calls with timestamps in any span [t, t + 60) number at most
\* requests_per_minute.
C36_ConcurrentCallsWithinMinuteLimit ==
    \A identifier \in DOMAIN allowedLog :
        \A i \in DOMAIN allowedLog[identifier] :
            AllowedWithin(allowedLog[identifier], allowedLog[identifier][i],
                          WindowLength["minute"]) <= requests_per_minute

(***************************************************************************)
(* Threads sharing one QoS manager.                                        *)
(***************************************************************************)
InitQoSConc ==
    /\ PartitionerIdle /\ SchedulerFresh /\ HistoryFresh
    /\ GuardrailServiceIdle /\ QoSManagerConstructed /\ RateLimiterConstructed
    /\ ControllerIdle /\ RestIdle
NextQoSConc ==
    \/ \E t \in ThreadIds : \/ SubmitAdmission(t) \/ SubmitEnqueue(t)
                            \/ GetClearExpired(t) \/ GetDequeue(t)
    \/ Tick
SpecQoSConc == InitQoSConc /\ [][NextQoSConc]_vars

\* C37: no get_next_request call, alone or among concurrent ones, returns
\* a request whose timeout had elapsed when the call started.
C37_NeverReturnsExpired ==
    \A r \in DOMAIN returnedLog : ~r.late

\* The same of calls made one after the other
ReturnedInTime ==
    [][(lastQos' # lastQos /\ lastQos'.op = "get_next_request" /\ lastQos'.ok)
       => ~Expired(lastQos'.ret, clock)]_vars

\* How often the tally holds an entry for one of S
RECURSIVE TallySum(_, _)
TallySum(tally, S) ==
    IF S = {} THEN 0
    ELSE LET x == CHOOSE y \in S : TRUE
         IN  tally[x] + TallySum(tally, S \ {x})

\* How often the request with this id was returned, is queued and was
\* removed as expired
TimesReturned(id) ==
    TallySum(returnedLog, {r \in DOMAIN returnedLog : r.request_id = id})
TimesQueued(id) ==
    Cardinality({<<level, i>> \in QoSLevel \X (1..MaxConcurrentRequests) :
                    i <= Len(queues[level]) /\ queues[level][i].request_id = id})
TimesExpired(id) ==
    IF id \in DOMAIN expiredLog THEN expiredLog[id] ELSE 0

\* C38: under every interleaving of submit_request and get_next_request
\* calls, every accepted request is returned at most once, and it is in
\* exactly one of three conditions: queued, returned once, or removed as
\* expired.  Nothing else is ever returned or removed.
C38_QueuedReturnedOrExpired ==
    /\ \A id \in acceptedLog :
         /\ TimesReturned(id) <= 1
         /\ TimesQueued(id) + TimesReturned(id) + TimesExpired(id) = 1
    /\ \A r \in DOMAIN returnedLog : r.request_id \in acceptedLog
    /\ DOMAIN expiredLog \subseteq acceptedLog

\* Two consumers are inside get_next_request, between clear_expired and
\* dequeue, after one request was returned and another removed as expired
C38_Witness ==
    /\ \A t \in ThreadIds : qosThreads[t].pc = "cleared"
    /\ \E a \in acceptedLog, b \in acceptedLog :
         /\ TimesReturned(a) = 1
         /\ TimesExpired(b) = 1

\* self.request_counts[identifier][w], empty for an identifier not seen yet
EntriesOf(counts, identifier, w) ==
    IF identifier \in DOMAIN counts THEN counts[identifier][w] ELSE << >>

InitIsolator ==
    /\ PartitionerIdle /\ SchedulerFresh /\ HistoryFresh
    /\ GuardrailServiceIdle /\ QoSManagerConstructed /\ RateLimiterConstructed
    /\ ControllerIdle /\ RestIdle
NextIsolator == IsolatorInitialize \/ SetPartitionLimits
SpecIsolator == InitIsolator /\ [][NextIsolator]_vars

\* C40: a set_partition_limits call that returns failure leaves every
\* partition's max_compute_units, min_compute_units and priority as they
\* were.
C40_FailedLimitsChangeNothing ==
    [][(/\ isolatorCalls' = isolatorCalls + 1
        /\ lastIsolatorCall'.op = "set_partition_limits"
        /\ ~lastIsolatorCall'.ok)
       => compute_limits' = compute_limits]_vars

====
